---- MODULE Spec2Model ----
(***************************************************************************)
(* Verification model of the sion-backend grid planner.                    *)
(*                                                                         *)
(*   algorithms/astar.go      Grid, Grid.FindPath (linear-scan A* )        *)
(*   handlers/pathfinding.go  HandlePathfinding (POST /api/pathfinding)    *)
(*   services/pathfinding.go  PathFinder.FindPath (heap A* ), simplifyPath *)
(*   handlers/websocket.go    ClientManager.Start, handleBroadcast         *)
(*                                                                         *)
(* Numbers.  Coordinates of requests are integer-valued float64.  Costs    *)
(* (G, H, F) are float64 in the code; here they are fixed-point numbers in *)
(* millionths, math.Sqrt rounded to the nearest millionth.                 *)
(***************************************************************************)
EXTENDS Integers, Sequences, FiniteSets, TLC

(* ------------------------------ bounds --------------------------------- *)
MaxW == 4
MaxH == 3
MaxObstacles == 2
\* polylines given to simplifyPath: at most MaxLen points with coordinates
\* 0..MaxX, 0..MaxY half metres, and tolerances of 1..MaxEps half metres
MaxLen == 4
MaxX == 2
MaxY == 2
MaxEps == 2
\* workspaces of a PathFinder: MaxCells by 1..MaxCells cells of 1..MaxCellSize
\* half metres, with at most MaxCircles circular obstacles
MaxCells == 4
MaxCellSize == 2
MaxCircles == 1
\* callers of Grid.FindPath on one grid of MaxSharedW by 1..MaxSharedH cells
\* with at most MaxSharedObstacles obstacles
MaxCallers == 2
MaxSharedW == 3
MaxSharedH == 2
MaxSharedObstacles == 1
\* WebSocket connections 1..MaxConns, and at most MaxQueue messages waiting in
\* the broadcast channel
MaxConns == 3
MaxQueue == 1
\* the map service: AGV ids 1..MaxAgvs, connections 1..MaxMapConns, at most
\* MaxMaps maps generated and MaxGoals goals per map
MaxAgvs == 1
MaxMapConns == 1
MaxMaps == 2
MaxGoals == 1
\* the simulator: at most MaxLoops goroutines of runSimulation are started,
\* and at most MaxTicks updates after a Stop are counted
MaxLoops == 3
MaxTicks == 2
\* the commentary service: the event channel holds MaxEvents events
MaxEvents == 3
\* the log buffer: MaxEntries entries are added, and the buffer is flushed
\* when it holds flushSize entries (main passes 50)
MaxEntries == 4
flushSize == 2
\* the AGV registry: MaxAgvConns AGV connections, the clock runs to MaxTime,
\* and an AGV is offline OfflineTimeout after its last ping (main passes 10 s)
MaxAgvConns == 2
MaxTime == 3
OfflineTimeout == 1
\* the goals: MaxGrids maps are generated, each with ObstacleCount obstacles
\* (the code draws 5) whose centres are drawn from ObstacleCentres; a map
\* takes MaxGridGoals goals, at positions of GoalPositions (metres)
MaxGrids == 3
ObstacleCount == 1
MaxGridGoals == 2
ObstacleCentres == {[X |-> 3, Y |-> 3], [X |-> 12, Y |-> 12]}
GoalPositions ==
    {[X |-> 3, Y |-> 3], [X |-> 12, Y |-> 12], [X |-> 20, Y |-> 20],
     [X |-> 0 - 1, Y |-> 3], [X |-> 21, Y |-> 3]}

(* --------------------------- numeric helpers --------------------------- *)
\* 1.0 (the orthogonal moveCost), in millionths
One == 1000000

\* math.Sqrt2 (the diagonal moveCost), in millionths
Sqrt2 == 1414214

Abs(i) == IF i < 0 THEN -i ELSE i

\* math.Sqrt(n) for n = 0, 1, ..., 460 in millionths, rounded to nearest
SqrtTable == <<
    0, 1000000, 1414214, 1732051, 2000000, 2236068, 2449490, 2645751,
    2828427, 3000000, 3162278, 3316625, 3464102, 3605551, 3741657, 3872983,
    4000000, 4123106, 4242641, 4358899, 4472136, 4582576, 4690416, 4795832,
    4898979, 5000000, 5099020, 5196152, 5291503, 5385165, 5477226, 5567764,
    5656854, 5744563, 5830952, 5916080, 6000000, 6082763, 6164414, 6244998,
    6324555, 6403124, 6480741, 6557439, 6633250, 6708204, 6782330, 6855655,
    6928203, 7000000, 7071068, 7141428, 7211103, 7280110, 7348469, 7416198,
    7483315, 7549834, 7615773, 7681146, 7745967, 7810250, 7874008, 7937254,
    8000000, 8062258, 8124038, 8185353, 8246211, 8306624, 8366600, 8426150,
    8485281, 8544004, 8602325, 8660254, 8717798, 8774964, 8831761, 8888194,
    8944272, 9000000, 9055385, 9110434, 9165151, 9219544, 9273618, 9327379,
    9380832, 9433981, 9486833, 9539392, 9591663, 9643651, 9695360, 9746794,
    9797959, 9848858, 9899495, 9949874, 10000000, 10049876, 10099505, 10148892,
    10198039, 10246951, 10295630, 10344080, 10392305, 10440307, 10488088, 10535654,
    10583005, 10630146, 10677078, 10723805, 10770330, 10816654, 10862780, 10908712,
    10954451, 11000000, 11045361, 11090537, 11135529, 11180340, 11224972, 11269428,
    11313708, 11357817, 11401754, 11445523, 11489125, 11532563, 11575837, 11618950,
    11661904, 11704700, 11747340, 11789826, 11832160, 11874342, 11916375, 11958261,
    12000000, 12041595, 12083046, 12124356, 12165525, 12206556, 12247449, 12288206,
    12328828, 12369317, 12409674, 12449900, 12489996, 12529964, 12569805, 12609520,
    12649111, 12688578, 12727922, 12767145, 12806248, 12845233, 12884099, 12922848,
    12961481, 13000000, 13038405, 13076697, 13114877, 13152946, 13190906, 13228757,
    13266499, 13304135, 13341664, 13379088, 13416408, 13453624, 13490738, 13527749,
    13564660, 13601471, 13638182, 13674794, 13711309, 13747727, 13784049, 13820275,
    13856406, 13892444, 13928388, 13964240, 14000000, 14035669, 14071247, 14106736,
    14142136, 14177447, 14212670, 14247807, 14282857, 14317821, 14352700, 14387495,
    14422205, 14456832, 14491377, 14525839, 14560220, 14594520, 14628739, 14662878,
    14696938, 14730920, 14764823, 14798649, 14832397, 14866069, 14899664, 14933185,
    14966630, 15000000, 15033296, 15066519, 15099669, 15132746, 15165751, 15198684,
    15231546, 15264338, 15297059, 15329710, 15362291, 15394804, 15427249, 15459625,
    15491933, 15524175, 15556349, 15588457, 15620499, 15652476, 15684387, 15716234,
    15748016, 15779734, 15811388, 15842980, 15874508, 15905974, 15937377, 15968719,
    16000000, 16031220, 16062378, 16093477, 16124515, 16155494, 16186414, 16217275,
    16248077, 16278821, 16309506, 16340135, 16370706, 16401219, 16431677, 16462078,
    16492423, 16522712, 16552945, 16583124, 16613248, 16643317, 16673332, 16703293,
    16733201, 16763055, 16792856, 16822604, 16852300, 16881943, 16911535, 16941074,
    16970563, 17000000, 17029386, 17058722, 17088007, 17117243, 17146428, 17175564,
    17204651, 17233688, 17262677, 17291616, 17320508, 17349352, 17378147, 17406895,
    17435596, 17464249, 17492856, 17521415, 17549929, 17578396, 17606817, 17635192,
    17663522, 17691806, 17720045, 17748239, 17776389, 17804494, 17832555, 17860571,
    17888544, 17916473, 17944358, 17972201, 18000000, 18027756, 18055470, 18083141,
    18110770, 18138357, 18165902, 18193405, 18220867, 18248288, 18275667, 18303005,
    18330303, 18357560, 18384776, 18411953, 18439089, 18466185, 18493242, 18520259,
    18547237, 18574176, 18601075, 18627936, 18654758, 18681542, 18708287, 18734994,
    18761663, 18788294, 18814888, 18841444, 18867962, 18894444, 18920888, 18947295,
    18973666, 19000000, 19026298, 19052559, 19078784, 19104973, 19131126, 19157244,
    19183326, 19209373, 19235384, 19261360, 19287302, 19313208, 19339080, 19364917,
    19390719, 19416488, 19442222, 19467922, 19493589, 19519221, 19544820, 19570386,
    19595918, 19621417, 19646883, 19672316, 19697716, 19723083, 19748418, 19773720,
    19798990, 19824228, 19849433, 19874607, 19899749, 19924859, 19949937, 19974984,
    20000000, 20024984, 20049938, 20074860, 20099751, 20124612, 20149442, 20174241,
    20199010, 20223748, 20248457, 20273135, 20297783, 20322401, 20346990, 20371549,
    20396078, 20420578, 20445048, 20469489, 20493902, 20518285, 20542639, 20566964,
    20591260, 20615528, 20639767, 20663978, 20688161, 20712315, 20736441, 20760539,
    20784610, 20808652, 20832667, 20856654, 20880613, 20904545, 20928450, 20952327,
    20976177, 21000000, 21023796, 21047565, 21071308, 21095023, 21118712, 21142375,
    21166010, 21189620, 21213203, 21236761, 21260292, 21283797, 21307276, 21330729,
    21354157, 21377558, 21400935, 21424285, 21447611 >>

\* math.Sqrt(n), in millionths
Sqrt(n) == SqrtTable[n + 1]

(* ------------------------ algorithms/astar.go -------------------------- *)
Point(x, y) == [X |-> x, Y |-> y]

VARIABLES
    grid,        \* the *Grid built for the request: Width, Height, Obstacles
    start, goal, \* arguments of Grid.FindPath
    pc,          \* position of the handler: "idle", "search", "done", and
                 \* "rejected" after the answer to a body that does not parse
    nodes,       \* every *Node allocated by the call, in allocation order
    openList,    \* []*Node, as indices into nodes
    closedSet,   \* map[string]bool, the set of keys mapped to true
    gScores,     \* map[string]float64
    resp,        \* the PathfindingResponse written by the handler
    body         \* the request body as the client posted it

gridVars == <<grid, start, goal, pc, nodes, openList, closedSet, gScores, resp, body>>

\* Grid.Obstacles key, fmt.Sprintf("%d,%d", x, y)
obstacleKey(x, y) == <<x, y>>

NewGrid(width, height) == [Width |-> width, Height |-> height, Obstacles |-> {}]

AddObstacle(g, x, y) == [g EXCEPT !.Obstacles = @ \cup {obstacleKey(x, y)}]

IsObstacle(g, x, y) == obstacleKey(x, y) \in g.Obstacles

IsValid(g, x, y) ==
    IF x < 0 \/ y < 0 \/ x >= g.Width \/ y >= g.Height
    THEN FALSE
    ELSE ~IsObstacle(g, x, y)

\* mutant: the Manhattan distance, which overestimates diagonal moves
heuristicManhattan(a, b) == (Abs(a.X - b.X) + Abs(a.Y - b.Y)) * One

heuristic(a, b) ==
    LET dx == a.X - b.X
        dy == a.Y - b.Y
    IN  Sqrt(dx * dx + dy * dy)

\* fmt.Sprintf("%.1f,%.1f", p.X, p.Y): the coordinates printed in tenths
pointKey(p) == <<10 * p.X, 10 * p.Y>>

\* mutant: the four orthogonal directions only
directionsOrthogonal == << <<0, 1>>, <<1, 0>>, <<0, -1>>, <<-1, 0>> >>

directions == << <<0, 1>>, <<1, 0>>, <<0, -1>>, <<-1, 0>>,
                 <<1, 1>>, <<1, -1>>, <<-1, -1>>, <<-1, 1>> >>

\* variant: a diagonal step needs its two flanking cells free
GetNeighborsFlanked(g, current) ==
    LET cand == [i \in 1..Len(directions) |->
                    Point(current.X + directions[i][1], current.Y + directions[i][2])]
        valid(p) == /\ IsValid(g, p.X, p.Y)
                    /\ IsValid(g, p.X, current.Y)
                    /\ IsValid(g, current.X, p.Y)
    IN  SelectSeq(cand, valid)

\* int(current.X), int(current.Y) are the coordinates themselves: every
\* coordinate of the model is an integer-valued float64.
GetNeighbors(g, current) ==
    LET cand == [i \in 1..Len(directions) |->
                    Point(current.X + directions[i][1], current.Y + directions[i][2])]
        valid(p) == IsValid(g, p.X, p.Y)
    IN  SelectSeq(cand, valid)

NilNode == 0

\* astar.go:147-154: the points of n, its Parent, ... back to the first node,
\* in reverse.  A Parent is always allocated before its child.
reconstructPath(ns, n) ==
    LET chain[i \in 0..Len(ns)] ==
            IF i = NilNode THEN <<>> ELSE Append(chain[ns[i].Parent], ns[i].Point)
    IN  chain[n]

\* variant: the open list as a stack, the newest node is taken
minFIndexLast(ns, open) == Len(open)

\* the scan of astar.go:101-106: the first index holding the smallest F
minFIndex(ns, open) ==
    CHOOSE i \in 1..Len(open) :
        /\ \A j \in 1..Len(open) : ns[open[j]].F >= ns[open[i]].F
        /\ \A j \in 1..(i - 1) : ns[open[j]].F > ns[open[i]].F

RemoveAt(s, i) == SubSeq(s, 1, i - 1) \o SubSeq(s, i + 1, Len(s))

\* mutant: every move costs 1.0
moveCostUnit(current, neighbor) == One

moveCost(current, neighbor) ==
    IF current.X # neighbor.X /\ current.Y # neighbor.Y THEN Sqrt2 ELSE One

\* mutant: a neighbour with a recorded cost is never taken again
notBetterSeen(gs, key, tentativeG) == key \in DOMAIN gs

\* variant: a neighbour is skipped only when its tentative cost is higher
notBetterAbove(gs, key, tentativeG) == key \in DOMAIN gs /\ tentativeG > gs[key]

\* the test of astar.go:128 that skips a neighbour
notBetter(gs, key, tentativeG) == key \in DOMAIN gs /\ tentativeG >= gs[key]

\* The loop astar.go:116-142 over the neighbours of node cur, from the state
\* st = [ns, open, gs].  The neighbours are distinct cells, so what the loop
\* does with one of them does not depend on what it did with the others.
visitNeighbors(st, closed, cur, nbrs, gl) ==
    LET current       == st.ns[cur]
        tentativeG(n) == current.G + moveCost(current.Point, n)
        taken(n)      == /\ pointKey(n) \notin closed
                         /\ ~notBetter(st.gs, pointKey(n), tentativeG(n))
        new           == SelectSeq(nbrs, taken)
        neighborNode(n) == [Point |-> n, G |-> tentativeG(n),
                            H |-> heuristic(n, gl),
                            F |-> tentativeG(n) + heuristic(n, gl),
                            Parent |-> cur]
        keys          == {pointKey(new[i]) : i \in 1..Len(new)}
    IN  [ns   |-> st.ns \o [i \in 1..Len(new) |-> neighborNode(new[i])],
         open |-> st.open \o [i \in 1..Len(new) |-> Len(st.ns) + i],
         gs   |-> [k \in DOMAIN st.gs \cup keys |->
                     IF k \in keys
                     THEN tentativeG(CHOOSE n \in {new[i] : i \in 1..Len(new)} : pointKey(n) = k)
                     ELSE st.gs[k]]]

(* ---------------------- handlers/pathfinding.go ------------------------ *)
MsgNotFound == "gyeongroreul chajeul su eopseumnida"
MsgSuccess  == "gyeongro tamsaek seonggong"
MsgBadRequest == "jalmotdoen yocheong hyeongsigimnida"

\* A response: the HTTP status and the fields of PathfindingResponse; a field
\* left out of the JSON by omitempty is the empty sequence or string.
NoResponse  == [Status |-> 0, Success |-> FALSE, Path |-> <<>>, Message |-> ""]

\* variant: the parse error is returned to the framework, no body is written
BadRequestError == [Status |-> 400, Success |-> FALSE, Path |-> <<>>, Message |-> ""]

\* the answer pathfinding.go:36-39 to a body that does not parse
BadRequest ==
    [Status |-> 400, Success |-> FALSE, Path |-> <<>>, Message |-> MsgBadRequest]

\* the numbers of a request body, by their JSON names
Fields == {"start.x", "start.y", "goal.x", "goal.y", "map_width", "map_height"}

\* A posted body: the JSON object json, in which the fields of missing are
\* absent and those of bad hold a value that is not a number.
Posted(json, missing, bad) == [json |-> json, missing |-> missing, bad |-> bad]

\* var req PathfindingRequest, pathfinding.go:34
ZeroRequest ==
    [Start |-> Point(0, 0), Goal |-> Point(0, 0), MapWidth |-> 0, MapHeight |-> 0,
     Obstacles |-> {}]

NoBody == Posted(ZeroRequest, {}, {})

\* the value json.Unmarshal leaves in a field: an absent field keeps the zero
\* value of the struct
Field(b, name, v) == IF name \in b.missing THEN 0 ELSE v

\* c.BodyParser(&req), pathfinding.go:35: an error when a value has the wrong
\* type, else the request with the absent fields at zero
BodyParser(b) ==
    IF b.bad # {}
    THEN [err |-> TRUE, req |-> ZeroRequest]
    ELSE [err |-> FALSE,
          req |-> [Start |-> Point(Field(b, "start.x", b.json.Start.X),
                                   Field(b, "start.y", b.json.Start.Y)),
                   Goal  |-> Point(Field(b, "goal.x", b.json.Goal.X),
                                   Field(b, "goal.y", b.json.Goal.Y)),
                   MapWidth  |-> Field(b, "map_width", b.json.MapWidth),
                   MapHeight |-> Field(b, "map_height", b.json.MapHeight),
                   Obstacles |-> b.json.Obstacles]]

RECURSIVE AddObstacles(_, _)
\* the loop of pathfinding.go:55-58 over req.Obstacles
AddObstacles(g, obs) ==
    IF obs = {} THEN g
    ELSE LET ob == CHOOSE o \in obs : TRUE
         IN  AddObstacles(AddObstacle(g, ob[1], ob[2]), obs \ {ob})

Failure == [Status |-> 200, Success |-> FALSE, Path |-> <<>>, Message |-> MsgNotFound]
Succeeded(path) == [Status |-> 200, Success |-> TRUE, Path |-> path, Message |-> MsgSuccess]

\* mutant: the blocked test comes before the test for equal endpoints
FindPathEntryBlockedFirst(g, s, t) ==
    IF IsObstacle(g, t.X, t.Y) THEN "nil"
    ELSE IF s = t THEN "single"
    ELSE "loop"

\* The tests of astar.go:79-84 that return before the search:
\* "single" (the one-point path), "nil", or "loop" (the search starts).
FindPathEntry(g, s, t) ==
    IF s = t THEN "single"
    ELSE IF IsObstacle(g, t.X, t.Y) THEN "nil"
    ELSE "loop"

\* The state in which the handler reaches the first test of the search loop
\* (or its return, for a call that does not search): it has built the grid
\* and run astar.go:78-98.
Entered(req) ==
    LET g     == AddObstacles(NewGrid(req.MapWidth, req.MapHeight), req.Obstacles)
        entry == FindPathEntry(g, req.Start, req.Goal)
        h     == heuristic(req.Start, req.Goal)
    IN  IF entry = "loop"
        THEN [grid |-> g, start |-> req.Start, goal |-> req.Goal, pc |-> "search",
              nodes |-> << [Point |-> req.Start, G |-> 0, H |-> h, F |-> h,
                            Parent |-> NilNode] >>,
              openList |-> <<1>>, closedSet |-> {},
              gScores |-> [k \in {pointKey(req.Start)} |-> 0],
              resp |-> NoResponse]
        ELSE [grid |-> g, start |-> req.Start, goal |-> req.Goal, pc |-> "done",
              nodes |-> <<>>, openList |-> <<>>, closedSet |-> {}, gScores |-> [k \in {} |-> 0],
              resp |-> IF entry = "single" THEN Succeeded(<<req.Start>>) ELSE Failure]

HandlePathfinding(b) ==
    /\ pc = "idle"
    /\ body' = b
    /\ LET parsed == BodyParser(b)
           e      == Entered(parsed.req)
       IN  IF parsed.err
           THEN /\ pc' = "rejected"
                /\ resp' = BadRequest
                /\ UNCHANGED <<grid, start, goal, nodes, openList, closedSet, gScores>>
           ELSE /\ grid' = e.grid
                /\ start' = e.start
                /\ goal' = e.goal
                /\ pc' = e.pc
                /\ nodes' = e.nodes
                /\ openList' = e.openList
                /\ closedSet' = e.closedSet
                /\ gScores' = e.gScores
                /\ resp' = e.resp

\* One iteration of the loop astar.go:99-143 that expands a node.
FindPathExpand ==
    /\ pc = "search"
    /\ Len(openList) > 0
    /\ LET currentIndex == minFIndex(nodes, openList)
           cur == openList[currentIndex]
           current == nodes[cur]
           closed == closedSet \cup {pointKey(current.Point)}
           st == visitNeighbors([ns |-> nodes,
                                 open |-> RemoveAt(openList, currentIndex),
                                 gs |-> gScores],
                                closed, cur, GetNeighbors(grid, current.Point), goal)
       IN  /\ current.Point # goal
           /\ closedSet' = closed
           /\ nodes' = st.ns
           /\ openList' = st.open
           /\ gScores' = st.gs
    /\ UNCHANGED <<grid, start, goal, pc, resp, body>>

\* The iteration that selects the goal (astar.go:109-111), and the handler's
\* answer pathfinding.go:72-77.
FindPathReached ==
    /\ pc = "search"
    /\ Len(openList) > 0
    /\ LET cur == openList[minFIndex(nodes, openList)]
       IN  /\ nodes[cur].Point = goal
           /\ resp' = Succeeded(reconstructPath(nodes, cur))
    /\ pc' = "done"
    /\ UNCHANGED <<grid, start, goal, nodes, openList, closedSet, gScores, body>>

\* The loop test fails (astar.go:99, 144), and the handler's answer
\* pathfinding.go:64-70.
FindPathExhausted ==
    /\ pc = "search"
    /\ Len(openList) = 0
    /\ resp' = Failure
    /\ pc' = "done"
    /\ UNCHANGED <<grid, start, goal, nodes, openList, closedSet, gScores, body>>

\* The handler has returned; the grid and the search state of the call are
\* garbage, the server waits for the next request.
HandlerReturn ==
    /\ pc \in {"done", "rejected"}
    /\ pc' = "idle"
    /\ body' = NoBody
    /\ grid' = NewGrid(0, 0)
    /\ start' = Point(0, 0)
    /\ goal' = Point(0, 0)
    /\ nodes' = <<>>
    /\ openList' = <<>>
    /\ closedSet' = {}
    /\ gScores' = [k \in {} |-> 0]
    /\ resp' = NoResponse

\* A client of the endpoint keeps the first failure it was answered with.
VARIABLE noted   \* NoNote, or the cause and the message of that failure

NoNote == [cause |-> "", message |-> ""]

\* why a request cannot be planned: an endpoint outside the grid, else an
\* endpoint on an obstacle, else no path between the endpoints
Cause(g, s, t) ==
    IF ~(s.X >= 0 /\ s.Y >= 0 /\ s.X < g.Width /\ s.Y < g.Height)
          \/ ~(t.X >= 0 /\ t.Y >= 0 /\ t.X < g.Width /\ t.Y < g.Height)
    THEN "out of bounds"
    ELSE IF IsObstacle(g, s.X, s.Y) \/ IsObstacle(g, t.X, t.Y)
    THEN "blocked"
    ELSE "no path"

\* the client reads the response
ClientReads ==
    /\ pc = "done"
    /\ noted' = IF ~resp.Success /\ noted = NoNote
                THEN [cause |-> Cause(grid, start, goal), message |-> resp.Message]
                ELSE noted

(* ----------------------- services/pathfinding.go ----------------------- *)
\* World coordinates (models.PositionData) are counted in half metres, so that
\* the tolerance 0.5 of reconstructPath is the integer 1.
VARIABLES
    spPc,        \* position of a caller of simplifyPath: "idle", "done"
    spInput,     \* the points of the argument path at the call
    spPath,      \* the caller's path after the call
    spEpsilon,   \* the argument epsilon
    spResult     \* the returned slice

simplifyVars == <<spPc, spInput, spPath, spEpsilon, spResult>>

RECURSIVE GCD(_, _)
GCD(a, b) == IF b = 0 THEN a ELSE GCD(b, a % b)

\* A distance is kept as the fraction [n, d] of its square: distance^2 = n / d.
\* Two distances are compared in lowest terms, which keeps the products small.
Lowest(a) == [n |-> a.n \div GCD(a.n, a.d), d |-> a.d \div GCD(a.n, a.d)]
DistLess(a, b) == Lowest(a).n * Lowest(b).d < Lowest(b).n * Lowest(a).d
DistZero == [n |-> 0, d |-> 1]
\* epsilon < the distance a
ExceedsEpsilon(a, epsilon) == a.n > epsilon * epsilon * a.d

\* mutant: the distance to the line through lineStart and lineEnd (the
\* projection parameter t is not clamped to [0, 1])
perpendicularDistanceLine(point, lineStart, lineEnd) ==
    LET dx == lineEnd.X - lineStart.X
        dy == lineEnd.Y - lineStart.Y
        px == point.X - lineStart.X
        py == point.Y - lineStart.Y
    IN  IF dx = 0 /\ dy = 0
        THEN [n |-> px * px + py * py, d |-> 1]
        ELSE [n |-> (px * dy - py * dx) * (px * dy - py * dx), d |-> dx * dx + dy * dy]

\* pathfinding.go:240-261.  t = dot / len2 clamped to [0, 1]; the distance to
\* the projection lineStart + t * (dx, dy).
perpendicularDistance(point, lineStart, lineEnd) ==
    LET dx   == lineEnd.X - lineStart.X
        dy   == lineEnd.Y - lineStart.Y
        px   == point.X - lineStart.X
        py   == point.Y - lineStart.Y
        dot  == px * dx + py * dy
        len2 == dx * dx + dy * dy
    IN  IF dx = 0 /\ dy = 0
        THEN [n |-> px * px + py * py, d |-> 1]
        ELSE IF dot <= 0       \* t = 0: the projection is lineStart
        THEN [n |-> px * px + py * py, d |-> 1]
        ELSE IF dot >= len2    \* t = 1: the projection is lineEnd
        THEN [n |-> (point.X - lineEnd.X) * (point.X - lineEnd.X)
                    + (point.Y - lineEnd.Y) * (point.Y - lineEnd.Y), d |-> 1]
        ELSE [n |-> (px * dy - py * dx) * (px * dy - py * dx), d |-> len2]

\* variant: the scan runs to the last point, which it keeps as the index
farthestEnd(path) ==
    LET n    == Len(path)
        d(i) == perpendicularDistance(path[i], path[1], path[n])
        interior == 2..(n - 1)
    IN  IF \A i \in interior : ~DistLess(DistZero, d(i))
        THEN [index |-> 0, dmax |-> DistZero]
        ELSE LET k == CHOOSE i \in interior :
                          /\ \A j \in interior : ~DistLess(d(i), d(j))
                          /\ \A j \in interior : j < i => DistLess(d(j), d(i))
             IN  [index |-> n, dmax |-> d(k)]

\* variant: the index kept by the scan is one too small
farthestBefore(path) ==
    LET n    == Len(path)
        d(i) == perpendicularDistance(path[i], path[1], path[n])
        interior == 2..(n - 1)
    IN  IF \A i \in interior : ~DistLess(DistZero, d(i))
        THEN [index |-> 0, dmax |-> DistZero]
        ELSE LET k == CHOOSE i \in interior :
                          /\ \A j \in interior : ~DistLess(d(i), d(j))
                          /\ \A j \in interior : j < i => DistLess(d(j), d(i))
             IN  [index |-> IF k > 2 THEN k - 1 ELSE k, dmax |-> d(k)]

\* The scan pathfinding.go:219-227 (indices from 1): the first interior index
\* with the largest distance when that is positive, else index 0; with dmax.
farthest(path) ==
    LET n    == Len(path)
        d(i) == perpendicularDistance(path[i], path[1], path[n])
        interior == 2..(n - 1)
    IN  IF \A i \in interior : ~DistLess(DistZero, d(i))
        THEN [index |-> 0, dmax |-> DistZero]
        ELSE LET k == CHOOSE i \in interior :
                          /\ \A j \in interior : ~DistLess(d(i), d(j))
                          /\ \A j \in interior : j < i => DistLess(d(j), d(i))
             IN  [index |-> k, dmax |-> d(k)]

\* A Go slice over the array mem (a sequence of points): element i (from 0) of
\* the slice [base, len, cap] is mem[base + i + 1].  A fresh array is placed
\* after the last cell of mem, with exactly the capacity asked for.
Slice(base, len, cap) == [base |-> base, len |-> len, cap |-> cap]
Elems(mem, s) == [i \in 1..s.len |-> mem[s.base + i]]

\* variant: the elements are put after the element that follows s, as by
\* append(left, right...)
appendSliceAfter(mem, s, elems) ==
    LET n == Len(elems)
        l == s.len + 1
    IN  IF l + n <= s.cap
        THEN [mem |-> [a \in 1..Len(mem) |->
                          IF a > s.base + l /\ a <= s.base + l + n
                          THEN elems[a - s.base - l]
                          ELSE mem[a]],
              s   |-> Slice(s.base, l + n, s.cap)]
        ELSE [mem |-> mem \o [i \in 1..l |-> mem[s.base + i]] \o elems,
              s   |-> Slice(Len(mem), l + n, l + n)]

\* append(s, elems...) of pathfinding.go:233: in place when the capacity of s
\* allows it, else into a fresh array.
appendSlice(mem, s, elems) ==
    LET n == Len(elems)
    IN  IF s.len + n <= s.cap
        THEN [mem |-> [a \in 1..Len(mem) |->
                          IF a > s.base + s.len /\ a <= s.base + s.len + n
                          THEN elems[a - s.base - s.len]
                          ELSE mem[a]],
              s   |-> Slice(s.base, s.len + n, s.cap)]
        ELSE [mem |-> mem \o Elems(mem, s) \o elems,
              s   |-> Slice(Len(mem), s.len + n, s.len + n)]

RECURSIVE simplifyPath(_, _, _)
\* pathfinding.go:213-237.  The result is the returned slice with the memory
\* after the call.
simplifyPath(mem, path, epsilon) ==
    IF path.len < 3 THEN [mem |-> mem, s |-> path]
    ELSE LET pts == Elems(mem, path)
             far == farthest(pts)
         IN  IF ExceedsEpsilon(far.dmax, epsilon)
             THEN LET left  == simplifyPath(mem, Slice(path.base, far.index, path.cap), epsilon)
                      right == simplifyPath(left.mem,
                                            Slice(path.base + far.index - 1,
                                                  path.len - far.index + 1,
                                                  path.cap - far.index + 1),
                                            epsilon)
                  IN  appendSlice(right.mem,
                                  Slice(left.s.base, left.s.len - 1, left.s.cap),
                                  Elems(right.mem, right.s))
             ELSE [mem |-> mem \o <<pts[1], pts[Len(pts)]>>,
                   s   |-> Slice(Len(mem), 2, 2)]

\* a caller hands its polyline (an array of its own) and a tolerance to
\* simplifyPath
SimplifyCall(path, epsilon) ==
    LET out == simplifyPath(path, Slice(0, Len(path), Len(path)), epsilon)
    IN  /\ spPc = "idle"
        /\ spInput' = path
        /\ spEpsilon' = epsilon
        /\ spPath' = SubSeq(out.mem, 1, Len(path))
        /\ spResult' = Elems(out.mem, out.s)
        /\ spPc' = "done"

SimplifyReturn ==
    /\ spPc = "done"
    /\ spPc' = "idle"
    /\ spInput' = <<>>
    /\ spPath' = <<>>
    /\ spEpsilon' = 0
    /\ spResult' = <<>>

VARIABLES
    pf,          \* the *PathFinder: gridWidth, gridHeight, cellSize, obstacles
    pfStart,     \* arguments of PathFinder.FindPath, world coordinates
    pfGoal,
    pfPc,        \* position of the call: "idle", "search", "done"
    goalNode,    \* the grid cell of the goal
    pfNodes,     \* every *Node allocated by the call, in allocation order
    openSet,     \* the PriorityQueue: the heap array, as indices into pfNodes
    pfClosedSet, \* closedSet map[string]bool, the set of keys mapped to true
    pfResult     \* the returned ([]models.PositionData, bool)

pathFinderVars ==
    <<pf, pfStart, pfGoal, pfPc, goalNode, pfNodes, openSet, pfClosedSet, pfResult>>

\* the tolerance 0.5 of pathfinding.go:209, in half metres
SimplifyEpsilon == 1
\* the safety margin 0.3 of pathfinding.go:171, in tenths of a metre
SafetyMargin == 3
\* the cost 1.414 of a diagonal move, in millionths
DiagonalCost == 1414000

NewPathFinder(width, height, cellSize, obstacles) ==
    [gridWidth |-> width, gridHeight |-> height, cellSize |-> cellSize,
     obstacles |-> obstacles]

\* the conversion int(q) of a float64 q = a / b: the fraction is cut off
TruncDiv(a, b) == IF a >= 0 THEN a \div b ELSE -((-a) \div b)

worldToGrid(p, x, y) ==
    [x |-> TruncDiv(x, p.cellSize), y |-> TruncDiv(y, p.cellSize),
     g |-> 0, h |-> 0, f |-> 0, parent |-> NilNode, worldX |-> x, worldY |-> y]

isValid(p, x, y) == x >= 0 /\ x < p.gridWidth /\ y >= 0 /\ y < p.gridHeight

\* dist < obs.Radius + 0.3 with dist = sqrt(dx^2 + dy^2) / 2 metres and the
\* radius in tenths: 5 * sqrt(dx^2 + dy^2) < Radius + 3, compared by squares.
isObstacle(p, x, y) ==
    LET worldX == x * p.cellSize
        worldY == y * p.cellSize
    IN  \E obs \in p.obstacles :
            LET dx == worldX - obs.Position.X
                dy == worldY - obs.Position.Y
            IN  25 * (dx * dx + dy * dy)
                    < (obs.Radius + SafetyMargin) * (obs.Radius + SafetyMargin)

pfHeuristic(x1, y1, x2, y2) ==
    LET dx == x2 - x1
        dy == y2 - y1
    IN  Sqrt(dx * dx + dy * dy)

getDirections == << <<0, 1>>, <<1, 0>>, <<0, -1>>, <<-1, 0>>,
                    <<1, 1>>, <<1, -1>>, <<-1, 1>>, <<-1, -1>> >>

\* pathfinding.go:264-266 is meant to give each cell a key of its own (as
\* written, string(rune(x))<<16 is not an expression the compiler accepts)
nodeKey(x, y) == <<x, y>>

\* PriorityQueue.Less on positions i, j (from 0) of the heap array pq
Less(ns, pq, i, j) == ns[pq[i + 1]].f < ns[pq[j + 1]].f

\* PriorityQueue.Swap
Swap(pq, i, j) == [pq EXCEPT ![i + 1] = pq[j + 1], ![j + 1] = pq[i + 1]]

RECURSIVE up(_, _, _)
\* container/heap: the element at j rises while it is less than its parent
up(ns, pq, j) ==
    LET i == (j - 1) \div 2
    IN  IF j = 0 \/ ~Less(ns, pq, j, i) THEN pq
        ELSE up(ns, Swap(pq, i, j), i)

RECURSIVE down(_, _, _, _)
\* container/heap: the element at i sinks below its smaller child, within
\* the first n positions
down(ns, pq, i, n) ==
    LET j1 == 2 * i + 1
        j  == IF j1 + 1 < n /\ Less(ns, pq, j1 + 1, j1) THEN j1 + 1 ELSE j1
    IN  IF j1 >= n THEN pq
        ELSE IF ~Less(ns, pq, j, i) THEN pq
        ELSE down(ns, Swap(pq, i, j), j, n)

\* heap.Push(&openSet, x): PriorityQueue.Push, then up
heapPush(ns, pq, x) == up(ns, Append(pq, x), Len(pq))

\* heap.Pop(&openSet): the first and last are swapped, the new first sinks,
\* PriorityQueue.Pop takes the last
heapPop(ns, pq) ==
    LET n  == Len(pq) - 1
        h2 == down(ns, Swap(pq, 0, n), 0, n)
    IN  [node |-> h2[n + 1], pq |-> SubSeq(h2, 1, n)]

\* variant: no cell counts as closed
isClosedNever(closed, key) == FALSE

\* closedSet[neighborKey], pathfinding.go:116
isClosed(closed, key) == key \in closed

\* pathfinding.go:121-124
pfMoveCost(dir) == IF dir[1] # 0 /\ dir[2] # 0 THEN DiagonalCost ELSE One

RECURSIVE pushNeighbors(_, _, _, _, _, _)
\* The loop pathfinding.go:108-136 from direction i on, for the node cur, from
\* the state st = [ns, pq].
pushNeighbors(p, st, closed, cur, gn, i) ==
    IF i > Len(getDirections) THEN st
    ELSE LET dir     == getDirections[i]
             current == st.ns[cur]
             nx      == current.x + dir[1]
             ny      == current.y + dir[2]
         IN  IF ~isValid(p, nx, ny) \/ isObstacle(p, nx, ny)
             THEN pushNeighbors(p, st, closed, cur, gn, i + 1)
             ELSE IF isClosed(closed, nodeKey(nx, ny))
             THEN pushNeighbors(p, st, closed, cur, gn, i + 1)
             ELSE LET tentativeG == current.g + pfMoveCost(dir)
                      hn         == pfHeuristic(nx, ny, gn.x, gn.y)
                      neighbor   == [worldToGrid(p, nx * p.cellSize, ny * p.cellSize)
                                        EXCEPT !.g = tentativeG, !.h = hn,
                                               !.f = tentativeG + hn, !.parent = cur]
                      ns2        == Append(st.ns, neighbor)
                  IN  pushNeighbors(p,
                                    [ns |-> ns2, pq |-> heapPush(ns2, st.pq, Len(ns2))],
                                    closed, cur, gn, i + 1)

\* pathfinding.go:194-210: the world positions of the cells of n, its parent,
\* ... back to the first node, in reverse, then simplified.
pfReconstructPath(p, ns, n) ==
    LET chain[i \in 0..Len(ns)] ==
            IF i = NilNode THEN <<>>
            ELSE Append(chain[ns[i].parent],
                        Point(ns[i].x * p.cellSize, ns[i].y * p.cellSize))
        path == chain[n]
        out  == simplifyPath(path, Slice(0, Len(path), Len(path)), SimplifyEpsilon)
    IN  Elems(out.mem, out.s)

NoResult == [path |-> <<>>, ok |-> FALSE]

\* The state in which a call reaches the first test of the main loop (or its
\* return, for a call that does not search): pathfinding.go:70-93.
PathFinderEntered(req) ==
    LET p  == NewPathFinder(req.width, req.height, req.cellSize, req.obstacles)
        sn == worldToGrid(p, req.start.X, req.start.Y)
        gn == worldToGrid(p, req.goal.X, req.goal.Y)
        h0 == pfHeuristic(sn.x, sn.y, gn.x, gn.y)
        s0 == [sn EXCEPT !.h = h0, !.f = h0]
        returned == [pf |-> p, pfStart |-> req.start, pfGoal |-> req.goal,
                     pfPc |-> "done", goalNode |-> gn, pfNodes |-> <<>>,
                     openSet |-> <<>>, pfClosedSet |-> {}, pfResult |-> NoResult]
    IN  IF ~isValid(p, sn.x, sn.y) \/ ~isValid(p, gn.x, gn.y) THEN returned
        ELSE IF isObstacle(p, sn.x, sn.y) \/ isObstacle(p, gn.x, gn.y) THEN returned
        ELSE [returned EXCEPT !.pfPc = "search", !.pfNodes = <<s0>>,
                              !.openSet = heapPush(<<s0>>, <<>>, 1)]

PathFinderFindPath(req) ==
    /\ pfPc = "idle"
    /\ LET e == PathFinderEntered(req)
       IN  /\ pf' = e.pf
           /\ pfStart' = e.pfStart
           /\ pfGoal' = e.pfGoal
           /\ pfPc' = e.pfPc
           /\ goalNode' = e.goalNode
           /\ pfNodes' = e.pfNodes
           /\ openSet' = e.openSet
           /\ pfClosedSet' = e.pfClosedSet
           /\ pfResult' = e.pfResult

\* One iteration of the loop pathfinding.go:96-137 that expands a node.
PathFinderExpand ==
    /\ pfPc = "search"
    /\ Len(openSet) > 0
    /\ LET popped  == heapPop(pfNodes, openSet)
           current == pfNodes[popped.node]
           closed  == pfClosedSet \cup {nodeKey(current.x, current.y)}
           st      == pushNeighbors(pf, [ns |-> pfNodes, pq |-> popped.pq],
                                    closed, popped.node, goalNode, 1)
       IN  /\ ~(current.x = goalNode.x /\ current.y = goalNode.y)
           /\ pfClosedSet' = closed
           /\ pfNodes' = st.ns
           /\ openSet' = st.pq
    /\ UNCHANGED <<pf, pfStart, pfGoal, pfPc, goalNode, pfResult>>

\* The iteration that pops the goal, pathfinding.go:100-102.
PathFinderReached ==
    /\ pfPc = "search"
    /\ Len(openSet) > 0
    /\ LET popped  == heapPop(pfNodes, openSet)
           current == pfNodes[popped.node]
       IN  /\ current.x = goalNode.x /\ current.y = goalNode.y
           /\ openSet' = popped.pq
           /\ pfResult' = [path |-> pfReconstructPath(pf, pfNodes, popped.node),
                           ok |-> TRUE]
    /\ pfPc' = "done"
    /\ UNCHANGED <<pf, pfStart, pfGoal, goalNode, pfNodes, pfClosedSet>>

\* The loop test fails, pathfinding.go:96, 140.
PathFinderExhausted ==
    /\ pfPc = "search"
    /\ Len(openSet) = 0
    /\ pfResult' = NoResult
    /\ pfPc' = "done"
    /\ UNCHANGED <<pf, pfStart, pfGoal, goalNode, pfNodes, openSet, pfClosedSet>>

\* the caller has the result; the PathFinder keeps nothing of the call
PathFinderReturn ==
    /\ pfPc = "done"
    /\ pfPc' = "idle"
    /\ pf' = NewPathFinder(0, 0, 1, {})
    /\ pfStart' = Point(0, 0)
    /\ pfGoal' = Point(0, 0)
    /\ goalNode' = worldToGrid(NewPathFinder(0, 0, 1, {}), 0, 0)
    /\ pfNodes' = <<>>
    /\ openSet' = <<>>
    /\ pfClosedSet' = {}
    /\ pfResult' = NoResult

(* ------------------------------ requests ------------------------------- *)
Cells(w, h) == {Point(x, y) : x \in 0..(w - 1), y \in 0..(h - 1)}

\* points outside a w x h grid: next to a corner, next to an edge, far away
Outside(w, h) == {Point(w, h), Point(-1, 0), Point(w + 2, h + 2)}

RECURSIVE UpTo(_, _)
\* the subsets of S of at most k elements
UpTo(S, k) ==
    IF k = 0 THEN {{}}
    ELSE LET smaller == UpTo(S, k - 1)
         IN  smaller \cup {T \cup {x} : T \in smaller, x \in S}

ObstacleSets(w, h) == UpTo((0..(w - 1)) \X (0..(h - 1)), MaxObstacles)

\* a request body of POST /api/pathfinding
Request(s, g, w, h, o) ==
    [Start |-> s, Goal |-> g, MapWidth |-> w, MapHeight |-> h, Obstacles |-> o]

\* scenarios of the specification on the 20 x 20 grid: 1, (0,0) -> (10,10) on
\* the empty grid; 4, a start at (25,25), and a start at the corner (20,20);
\* 5, a start on the obstacle (3,3)
Scenario1 == Request(Point(0, 0), Point(10, 10), 20, 20, {})
Scenario4 == Request(Point(25, 25), Point(10, 10), 20, 20, {})
Scenario4Corner == Request(Point(20, 20), Point(10, 10), 20, 20, {})
Scenario5 == Request(Point(3, 3), Point(6, 6), 20, 20, {<<3, 3>>})
\* a goal between four obstacles, reached over a corner
ScenarioCorner ==
    Request(Point(0, 0), Point(1, 1), 3, 3, {<<1, 0>>, <<0, 1>>, <<2, 1>>, <<1, 2>>})
Scenarios == {Scenario1, Scenario4, Scenario4Corner, Scenario5, ScenarioCorner}

\* A client posts a request: a grid of width MaxW and a height up to MaxH with
\* at most MaxObstacles obstacles and endpoints in or outside it, or a scenario.
ClientRequest ==
    /\ pc = "idle"
    /\ \/ \E h \in 1..MaxH :
              \E s \in Cells(MaxW, h) \cup Outside(MaxW, h),
                 g \in Cells(MaxW, h) \cup Outside(MaxW, h),
                 o \in ObstacleSets(MaxW, h) :
                  HandlePathfinding(Posted(Request(s, g, MaxW, h, o), {}, {}))
       \/ \E req \in Scenarios : HandlePathfinding(Posted(req, {}, {}))

\* A client posts a body in which one number is absent, or is not a number.
MalformedRequest ==
    /\ pc = "idle"
    /\ \E h \in 1..MaxH :
           \E s \in Cells(MaxW, h), g \in Cells(MaxW, h), f \in Fields :
               \/ HandlePathfinding(Posted(Request(s, g, MaxW, h, {}), {f}, {}))
               \/ HandlePathfinding(Posted(Request(s, g, MaxW, h, {}), {}, {f}))

\* the points of the polylines: coordinates 0..MaxX, 0..MaxY half metres
LatticePoints == {Point(x, y) : x \in 0..MaxX, y \in 0..MaxY}

\* a caller of simplifyPath with a polyline of 0..MaxLen points
SimplifyRequest ==
    /\ spPc = "idle"
    /\ \E n \in 0..MaxLen :
           \E path \in [1..n -> LatticePoints], epsilon \in 1..MaxEps :
               SimplifyCall(path, epsilon)

\* obstacle radii 0.5 m and 1.0 m, in tenths of a metre
Radii == {5, 10}

\* endpoints of the calls of PathFinder.FindPath: at the origin of a cell,
\* inside a cell, left of the workspace and right of it
WorldPoints(w, h, cs) ==
    {Point(x * cs, y * cs) : x \in 0..(w - 1), y \in 0..(h - 1)}
        \cup {Point(cs - 1, cs - 1), Point(-1, 0), Point(w * cs, 0)}
Circles(w, h, cs) ==
    {[Position |-> Point(x * cs, y * cs), Radius |-> r] :
        x \in 0..(w - 1), y \in 0..(h - 1), r \in Radii}
CircleSets(w, h, cs) == UpTo(Circles(w, h, cs), MaxCircles)

PathFinderRequest(w, h, cs, obs, s, t) ==
    [width |-> w, height |-> h, cellSize |-> cs, obstacles |-> obs,
     start |-> s, goal |-> t]

\* 3 x 3 cells of 1.0 m: obstacles of radius 0.5 m on the four cells next to
\* the cell (1,1), which is the goal, and the start on the cell (0,0)
PathFinderCorner ==
    PathFinderRequest(3, 3, 2,
                      {[Position |-> Point(2, 0), Radius |-> 5],
                       [Position |-> Point(0, 2), Radius |-> 5],
                       [Position |-> Point(4, 2), Radius |-> 5],
                       [Position |-> Point(2, 4), Radius |-> 5]},
                      Point(0, 0), Point(2, 2))

\* a caller of PathFinder.FindPath on a workspace of MaxCells by up to MaxCells
\* cells, or on the workspace with the enclosed goal
PathFinderCall ==
    /\ pfPc = "idle"
    /\ \/ \E h \in 1..MaxCells, cs \in 1..MaxCellSize :
              \E obs \in CircleSets(MaxCells, h, cs),
                 s \in WorldPoints(MaxCells, h, cs),
                 t \in WorldPoints(MaxCells, h, cs) :
                  PathFinderFindPath(PathFinderRequest(MaxCells, h, cs, obs, s, t))
       \/ PathFinderFindPath(PathFinderCorner)

(* ------------- Grid.FindPath called by several goroutines -------------- *)
VARIABLES
    shared,   \* a *Grid that every caller passes as the receiver
    calls     \* per caller, the arguments, locals and result of its call

callVars == <<shared, calls>>

Callers == 1..MaxCallers

\* a caller that is not in a call
IdleCall ==
    [pc |-> "idle", start |-> Point(0, 0), goal |-> Point(0, 0), nodes |-> <<>>,
     openList |-> <<>>, closedSet |-> {}, gScores |-> [k \in {} |-> 0],
     path |-> <<>>]

\* variant: one closed set for all calls on the grid
closedSetShared(cs, c) == UNION {cs[d].closedSet : d \in DOMAIN cs}

\* closedSet of the call of c, a local of astar.go:93
closedSetOf(cs, c) == cs[c].closedSet

\* variant: one cost map for all calls on the grid
gScoresShared(cs, c) ==
    LET keys == UNION {DOMAIN cs[d].gScores : d \in DOMAIN cs}
        first(k) == CHOOSE d \in DOMAIN cs :
                        /\ k \in DOMAIN cs[d].gScores
                        /\ \A e \in DOMAIN cs : k \in DOMAIN cs[e].gScores => d <= e
    IN  [k \in keys |-> IF k \in DOMAIN cs[c].gScores THEN cs[c].gScores[k]
                        ELSE cs[first(k)].gScores[k]]

\* gScores of the call of c, a local of astar.go:94
gScoresOf(cs, c) == cs[c].gScores

\* astar.go:78-98: the call up to the first test of the loop; the nil path is
\* the empty sequence
BeginCall(g, s, t) ==
    LET entry == FindPathEntry(g, s, t)
        h     == heuristic(s, t)
    IN  IF entry = "loop"
        THEN [IdleCall EXCEPT !.pc = "search", !.start = s, !.goal = t,
                  !.nodes = << [Point |-> s, G |-> 0, H |-> h, F |-> h,
                                Parent |-> NilNode] >>,
                  !.openList = <<1>>,
                  !.gScores = [k \in {pointKey(s)} |-> 0]]
        ELSE [IdleCall EXCEPT !.pc = "done", !.start = s, !.goal = t,
                  !.path = IF entry = "single" THEN <<s>> ELSE <<>>]

\* One pass through the loop astar.go:99-143, or its end at line 144, for a
\* call that reads the closed set closed and the costs gs.
Iteration(g, closed, gs, call) ==
    IF Len(call.openList) = 0
    THEN [call EXCEPT !.pc = "done", !.path = <<>>]
    ELSE LET currentIndex == minFIndex(call.nodes, call.openList)
             cur     == call.openList[currentIndex]
             current == call.nodes[cur]
             key     == pointKey(current.Point)
             st      == visitNeighbors([ns |-> call.nodes,
                                        open |-> RemoveAt(call.openList, currentIndex),
                                        gs |-> gs],
                                       closed \cup {key}, cur,
                                       GetNeighbors(g, current.Point), call.goal)
         IN  IF current.Point = call.goal
             THEN [call EXCEPT !.pc = "done",
                               !.path = reconstructPath(call.nodes, cur)]
             ELSE [call EXCEPT !.closedSet = @ \cup {key},
                               !.nodes = st.ns,
                               !.openList = st.open,
                               !.gScores = st.gs]

\* a grid is built while no call runs: NewGrid and AddObstacle
SharedGridBuilt ==
    /\ \A c \in Callers : calls[c].pc = "idle"
    /\ \E h \in 1..MaxSharedH :
           \E o \in UpTo((0..(MaxSharedW - 1)) \X (0..(h - 1)), MaxSharedObstacles) :
               shared' = AddObstacles(NewGrid(MaxSharedW, h), o)
    /\ UNCHANGED calls

\* the caller c calls shared.FindPath(s, t)
CallBegin(c) ==
    /\ calls[c].pc = "idle"
    /\ shared.Width > 0
    /\ \E s \in Cells(shared.Width, shared.Height), t \in Cells(shared.Width, shared.Height) :
           calls' = [calls EXCEPT ![c] = BeginCall(shared, s, t)]
    /\ UNCHANGED shared

\* the call of c runs one pass of its loop
CallIterate(c) ==
    /\ calls[c].pc = "search"
    /\ calls' = [calls EXCEPT ![c] = Iteration(shared, closedSetOf(calls, c),
                                               gScoresOf(calls, c), calls[c])]
    /\ UNCHANGED shared

\* the caller c has the path; the locals of the call are garbage
CallReturn(c) ==
    /\ calls[c].pc = "done"
    /\ calls' = [calls EXCEPT ![c] = IdleCall]
    /\ UNCHANGED shared

CallsInit ==
    /\ shared = NewGrid(0, 0)
    /\ calls = [c \in Callers |-> IdleCall]

CallsNext ==
    \/ SharedGridBuilt
    \/ \E c \in Callers : CallBegin(c)
    \/ \E c \in Callers : CallIterate(c)
    \/ \E c \in Callers : CallReturn(c)

(* ------------------------ handlers/websocket.go ------------------------ *)
VARIABLES
    clients,    \* manager.clients: connection -> ClientType
    broadcast,  \* the Type of the messages in the channel manager.broadcast
    mgrPc,      \* the goroutine of Start: "select", or "blocked" in a send
    writes      \* the WriteJSON calls of the last handleBroadcast: the Type
                \* of the message, and the clients written to and failed on

wsVars == <<clients, broadcast, mgrPc, writes>>

Conns == 1..MaxConns

\* ClientType as set by HandleAGVWebSocket and HandleWebClientWebSocket
ClientTypes == {"agv", "web"}

\* models/message.go:6-37, and the literal of websocket.go:98
MessageTypes ==
    {"position", "status", "log", "target_found", "path_update",
     "command", "mode_change", "emergency_stop",
     "chat", "chat_response", "agv_event",
     "llm_explanation", "tts",
     "map_grid", "map_update", "goal_set", "agv_command", "system_ready",
     "system_info", "agv_status_update"}

NoWrites == [Type |-> "", to |-> {}, failed |-> {}]

\* variant: every message goes to every client
shouldSendAll(type, clientType) == TRUE

\* the switch websocket.go:77-105
shouldSend(type, clientType) ==
    IF type \in {"position", "status", "log", "target_found", "path_update",
                 "chat_response", "agv_event"}
    THEN clientType = "web"
    ELSE IF type \in {"command", "mode_change", "emergency_stop"}
    THEN clientType = "agv"
    ELSE IF type \in {"llm_explanation", "tts", "map_update", "system_info",
                      "agv_status_update"}
    THEN clientType = "web"
    ELSE FALSE

\* case client := <-manager.register, websocket.go:44-48
Register(conn, clientType) ==
    /\ mgrPc = "select"
    /\ conn \notin DOMAIN clients
    /\ clients' = [c \in DOMAIN clients \cup {conn} |->
                      IF c = conn THEN clientType ELSE clients[c]]
    /\ UNCHANGED <<broadcast, mgrPc, writes>>

\* case conn := <-manager.unregister, websocket.go:50-61
Unregister(conn) ==
    /\ mgrPc = "select"
    /\ clients' = [c \in DOMAIN clients \ {conn} |-> clients[c]]
    /\ UNCHANGED <<broadcast, mgrPc, writes>>

\* BroadcastMessage, websocket.go:118-120: a send into the buffered channel
BroadcastMessage(type) ==
    /\ Len(broadcast) < MaxQueue
    /\ broadcast' = Append(broadcast, type)
    /\ UNCHANGED <<clients, mgrPc, writes>>

\* case message := <-manager.broadcast with handleBroadcast, websocket.go:
\* 63-64, 69-115.  The range over the map visits the clients in any order;
\* every WriteJSON succeeds, or one fails after the writes to the clients of
\* done, and the goroutine then sends to manager.unregister, a channel only
\* this goroutine receives from.
handleBroadcast ==
    /\ mgrPc = "select"
    /\ Len(broadcast) > 0
    /\ broadcast' = Tail(broadcast)
    /\ LET message == Head(broadcast)
           targets == {c \in DOMAIN clients : shouldSend(message, clients[c])}
           client(c) == [Conn |-> c, ClientType |-> clients[c]]
       IN  \/ /\ writes' = [Type |-> message, to |-> {client(c) : c \in targets},
                             failed |-> {}]
              /\ mgrPc' = "select"
           \/ \E f \in targets : \E done \in SUBSET (targets \ {f}) :
                  /\ writes' = [Type |-> message, to |-> {client(c) : c \in done},
                                failed |-> {client(f)}]
                  /\ mgrPc' = "blocked"
    /\ UNCHANGED clients

WsInit ==
    /\ clients = [c \in {} |-> ""]
    /\ broadcast = <<>>
    /\ mgrPc = "select"
    /\ writes = NoWrites

WsNext ==
    \/ \E conn \in Conns, clientType \in ClientTypes : Register(conn, clientType)
    \/ \E conn \in Conns : Unregister(conn)
    \/ \E type \in MessageTypes : BroadcastMessage(type)
    \/ handleBroadcast

(* --------------- services/map_generator.go and main.go ----------------- *)
VARIABLES
    agvs,          \* the keys of AGVManager.agvs
    activeMap,     \* mg.activeMap: NoMap for nil, else the *models.MapGrid
    nextMapId,     \* the maps generated so far, plus 1; the ID of a map
    mapGenerated,  \* the flag of the goroutine of checkSystemReadyAndGenerateMap
    tkPc,          \* that goroutine: "wait", "generate", "sendMap", "sendReady"
    genPc,         \* the handler of POST /api/map/generate: "idle", "send"
    wrPc,          \* a caller of AddGoal, UpdateGoal, SetGoalStatus or ClearMap:
                   \* "idle", or the method it is in, holding mg.mu
    rdPc,          \* the handler of GET /api/map/current: "idle", "serialise"
    rdMap,         \* the ID of the map this handler got from GetActiveMap
    lastGen,       \* the last call of GenerateMap: who called, and the state then
    autoCount      \* the maps generated by the goroutine

mapVars == <<agvs, activeMap, nextMapId, mapGenerated, tkPc, genPc, wrPc, rdPc,
             rdMap, lastGen, autoCount>>

NoMap == [ID |-> 0, Width |-> 0, Height |-> 0, CellSize |-> 0, Goals |-> <<>>]

\* the defaults of main.go:258-266 and the arguments of main.go:321, metres;
\* the cell size in tenths of a metre
DefaultWidth == 20
DefaultHeight == 20
DefaultCellSize == 5

\* GenerateMap, map_generator.go:30-54: a map with a fresh ID and no goals
\* becomes the active map
GenerateMap(width, height, cellSize) ==
    [ID |-> nextMapId, Width |-> width, Height |-> height, CellSize |-> cellSize,
     Goals |-> <<>>]

\* AGVManager.GetAGVCount, agv_manager.go:182-187
GetAGVCount == Cardinality(agvs)

\* the number of connected clients, from ClientManager.GetClientCount
GetClientCount == Cardinality(DOMAIN clients)

\* mg.mu is held by a writer
MuLocked == wrPc # "idle"

NoGeneration ==
    [by |-> "none", agvCount |-> 0, clientCount |-> 0, replaced |-> 0, before |-> 0]

\* what a call of GenerateMap by the caller by finds
Generation(by) ==
    [by |-> by, agvCount |-> GetAGVCount, clientCount |-> GetClientCount,
     replaced |-> activeMap.ID, before |-> nextMapId - 1]

\* AGVManager.RegisterAGV, agv_manager.go:44-83
RegisterAGV(id) ==
    /\ agvs' = agvs \cup {id}
    /\ UNCHANGED <<activeMap, nextMapId, mapGenerated, tkPc, genPc, wrPc, rdPc,
                   rdMap, lastGen, autoCount>>
    /\ UNCHANGED wsVars

\* AGVManager.RemoveAGV, agv_manager.go:166-179
RemoveAGV(id) ==
    /\ id \in agvs
    /\ agvs' = agvs \ {id}
    /\ UNCHANGED <<activeMap, nextMapId, mapGenerated, tkPc, genPc, wrPc, rdPc,
                   rdMap, lastGen, autoCount>>
    /\ UNCHANGED wsVars

\* the condition main.go:317
ready == GetAGVCount > 0 /\ GetClientCount > 0

\* A tick of the ticker, main.go:307-317: nothing once the flag is set, else
\* the two counts are read and compared.
TickCheck ==
    /\ tkPc = "wait"
    /\ ~mapGenerated
    /\ ready
    /\ tkPc' = "generate"
    /\ UNCHANGED <<agvs, activeMap, nextMapId, mapGenerated, genPc, wrPc, rdPc,
                   rdMap, lastGen, autoCount>>
    /\ UNCHANGED wsVars

\* main.go:321
TickGenerate ==
    /\ tkPc = "generate"
    /\ ~MuLocked
    /\ nextMapId <= MaxMaps
    /\ activeMap' = GenerateMap(DefaultWidth, DefaultHeight, DefaultCellSize)
    /\ nextMapId' = nextMapId + 1
    /\ lastGen' = Generation("auto")
    /\ autoCount' = autoCount + 1
    /\ tkPc' = "sendMap"
    /\ UNCHANGED <<agvs, mapGenerated, genPc, wrPc, rdPc, rdMap>>
    /\ UNCHANGED wsVars

\* broadcastMapToClients, main.go:282-297: nothing is sent without a map
TickSendMap ==
    /\ tkPc = "sendMap"
    /\ ~MuLocked
    /\ IF activeMap = NoMap THEN UNCHANGED wsVars ELSE BroadcastMessage("map_grid")
    /\ tkPc' = "sendReady"
    /\ UNCHANGED <<agvs, activeMap, nextMapId, mapGenerated, genPc, wrPc, rdPc,
                   rdMap, lastGen, autoCount>>

\* main.go:328-340
TickSendReady ==
    /\ tkPc = "sendReady"
    /\ BroadcastMessage("system_ready")
    /\ mapGenerated' = TRUE
    /\ tkPc' = "wait"
    /\ UNCHANGED <<agvs, activeMap, nextMapId, genPc, wrPc, rdPc, rdMap, lastGen,
                   autoCount>>

\* POST /api/map/generate, main.go:245-269, with a body that parses: a size
\* of 0 (or absent) is replaced by the default
PostGenerate(width, height, cellSize) ==
    /\ genPc = "idle"
    /\ ~MuLocked
    /\ nextMapId <= MaxMaps
    /\ activeMap' = GenerateMap(IF width = 0 THEN DefaultWidth ELSE width,
                                IF height = 0 THEN DefaultHeight ELSE height,
                                IF cellSize = 0 THEN DefaultCellSize ELSE cellSize)
    /\ nextMapId' = nextMapId + 1
    /\ lastGen' = Generation("manual")
    /\ genPc' = "send"
    /\ UNCHANGED <<agvs, mapGenerated, tkPc, wrPc, rdPc, rdMap, autoCount>>
    /\ UNCHANGED wsVars

\* main.go:272-277: the broadcast and the response
PostGenerateSend ==
    /\ genPc = "send"
    /\ ~MuLocked
    /\ IF activeMap = NoMap THEN UNCHANGED wsVars ELSE BroadcastMessage("map_grid")
    /\ genPc' = "idle"
    /\ UNCHANGED <<agvs, activeMap, nextMapId, mapGenerated, tkPc, wrPc, rdPc,
                   rdMap, lastGen, autoCount>>

\* a goal of the active map: Status and Position
Goal(status, position) == [Status |-> status, Position |-> position]

\* mg.mu.Lock() of AddGoal, UpdateGoal, SetGoalStatus, ClearMap
WriterLock(method) ==
    /\ wrPc = "idle"
    /\ wrPc' = method
    /\ UNCHANGED <<agvs, activeMap, nextMapId, mapGenerated, tkPc, genPc, rdPc,
                   rdMap, lastGen, autoCount>>
    /\ UNCHANGED wsVars

\* the body of the method and the deferred Unlock: map_generator.go:95-107,
\* 115-126, 134-145, 199-200.  A method other than ClearMap returns an error
\* without a map; UpdateGoal and SetGoalStatus change the first goal.
WriterUnlock ==
    /\ wrPc # "idle"
    /\ wrPc' = "idle"
    /\ activeMap' =
          IF wrPc = "ClearMap" THEN NoMap
          ELSE IF activeMap = NoMap THEN NoMap
          ELSE IF wrPc = "AddGoal"
          THEN IF Len(activeMap.Goals) < MaxGoals
               THEN [activeMap EXCEPT !.Goals = Append(@, Goal("pending", 0))]
               ELSE activeMap
          ELSE IF activeMap.Goals = <<>> THEN activeMap
          ELSE IF wrPc = "UpdateGoal"
          THEN [activeMap EXCEPT !.Goals[1].Position = 1 - @]
          ELSE [activeMap EXCEPT !.Goals[1].Status =
                                 IF @ = "pending" THEN "active" ELSE "pending"]
    /\ UNCHANGED <<agvs, nextMapId, mapGenerated, tkPc, genPc, rdPc, rdMap, lastGen,
                   autoCount>>
    /\ UNCHANGED wsVars

\* GET /api/map/current, main.go:144-151: GetActiveMap (map_generator.go:
\* 84-88) takes and releases the read lock and returns the pointer
GetCurrent ==
    /\ rdPc = "idle"
    /\ ~MuLocked
    /\ rdMap' = activeMap.ID
    /\ rdPc' = IF activeMap = NoMap THEN "idle" ELSE "serialise"
    /\ UNCHANGED <<agvs, activeMap, nextMapId, mapGenerated, tkPc, genPc, wrPc,
                   lastGen, autoCount>>
    /\ UNCHANGED wsVars

\* main.go:152-155: c.JSON walks the map, its goals and obstacles
GetCurrentSerialised ==
    /\ rdPc = "serialise"
    /\ rdPc' = "idle"
    /\ rdMap' = 0
    /\ UNCHANGED <<agvs, activeMap, nextMapId, mapGenerated, tkPc, genPc, wrPc,
                   lastGen, autoCount>>
    /\ UNCHANGED wsVars

MapInit ==
    /\ agvs = {}
    /\ activeMap = NoMap
    /\ nextMapId = 1
    /\ mapGenerated = FALSE
    /\ tkPc = "wait"
    /\ genPc = "idle"
    /\ wrPc = "idle"
    /\ rdPc = "idle"
    /\ rdMap = 0
    /\ lastGen = NoGeneration
    /\ autoCount = 0

MapNext ==
    \/ \E id \in 1..MaxAgvs : RegisterAGV(id)
    \/ \E id \in 1..MaxAgvs : RemoveAGV(id)
    \/ \E conn \in 1..MaxMapConns, clientType \in ClientTypes :
           Register(conn, clientType) /\ UNCHANGED mapVars
    \/ \E conn \in 1..MaxMapConns : Unregister(conn) /\ UNCHANGED mapVars
    \/ handleBroadcast /\ UNCHANGED mapVars
    \/ TickCheck
    \/ TickGenerate
    \/ TickSendMap
    \/ TickSendReady
    \/ \E size \in {0, 10} : PostGenerate(size, size, 0)
    \/ PostGenerateSend
    \/ \E method \in {"AddGoal", "UpdateGoal", "SetGoalStatus", "ClearMap"} :
           WriterLock(method)
    \/ WriterUnlock
    \/ GetCurrent
    \/ GetCurrentSerialised

(* ------------- the recursion of simplifyPath, call by call ------------- *)
VARIABLES
    rcPc,      \* "idle", "run" while simplifyPath is on the stack, "done"
    rcInput,   \* the points of the caller's polyline at the call
    rcEpsilon, \* the tolerance
    rcMem,     \* the arrays of the call: the caller's array, then the fresh ones
    rcStack,   \* the activations of simplifyPath, the innermost last
    rcOut      \* the slice returned to the caller

recursionVars == <<rcPc, rcInput, rcEpsilon, rcMem, rcStack, rcOut>>

NoSlice == Slice(0, 0, 0)

\* An activation of simplifyPath: its argument path, the place it is at
\* ("enter" before line 214, "left" and "right" inside the calls of lines 231
\* and 232, "return" with the value val), its index, and its local left.
Activation(path) ==
    [path |-> path, stage |-> "enter", index |-> 0, left |-> NoSlice, val |-> NoSlice]

\* the caller calls simplifyPath(path, epsilon) on an array of its own
RecursionCall(path, epsilon) ==
    /\ rcPc = "idle"
    /\ rcPc' = "run"
    /\ rcInput' = path
    /\ rcEpsilon' = epsilon
    /\ rcMem' = path
    /\ rcStack' = <<Activation(Slice(0, Len(path), Len(path)))>>
    /\ rcOut' = NoSlice

\* the innermost activation with another value of its fields
WithTop(f) == [rcStack EXCEPT ![Len(rcStack)] = f]

\* pathfinding.go:214-231 and 236: the innermost activation runs from its
\* entry to its return, or to the call of line 231 on path[:index+1]
RecursionEnter ==
    /\ rcPc = "run"
    /\ LET top == rcStack[Len(rcStack)]
           pts == Elems(rcMem, top.path)
           far == farthest(pts)
       IN  /\ top.stage = "enter"
           /\ IF top.path.len < 3
              THEN /\ rcStack' = WithTop([top EXCEPT !.stage = "return", !.val = top.path])
                   /\ rcMem' = rcMem
              ELSE IF ExceedsEpsilon(far.dmax, rcEpsilon)
              THEN /\ rcStack' =
                          Append(WithTop([top EXCEPT !.stage = "left", !.index = far.index]),
                                 Activation(Slice(top.path.base, far.index, top.path.cap)))
                   /\ rcMem' = rcMem
              ELSE /\ rcStack' = WithTop([top EXCEPT !.stage = "return",
                                                     !.val = Slice(Len(rcMem), 2, 2)])
                   /\ rcMem' = rcMem \o <<pts[1], pts[Len(pts)]>>
    /\ UNCHANGED <<rcPc, rcInput, rcEpsilon, rcOut>>

\* A recursive call returns to its caller: after the call of line 231 the
\* caller keeps the value as left and makes the call of line 232 on
\* path[index:]; after that of line 232 it appends (line 233) and returns.
RecursionCollect ==
    /\ rcPc = "run"
    /\ Len(rcStack) > 1
    /\ LET top    == rcStack[Len(rcStack)]
           caller == rcStack[Len(rcStack) - 1]
           rest   == SubSeq(rcStack, 1, Len(rcStack) - 2)
           joined == appendSlice(rcMem,
                                 Slice(caller.left.base, caller.left.len - 1,
                                       caller.left.cap),
                                 Elems(rcMem, top.val))
       IN  /\ top.stage = "return"
           /\ IF caller.stage = "left"
              THEN /\ rcStack' =
                          rest \o <<[caller EXCEPT !.stage = "right", !.left = top.val],
                                    Activation(Slice(caller.path.base + caller.index - 1,
                                                     caller.path.len - caller.index + 1,
                                                     caller.path.cap - caller.index + 1))>>
                   /\ rcMem' = rcMem
              ELSE /\ rcStack' =
                          rest \o <<[caller EXCEPT !.stage = "return", !.val = joined.s]>>
                   /\ rcMem' = joined.mem
    /\ UNCHANGED <<rcPc, rcInput, rcEpsilon, rcOut>>

\* the outermost activation returns to the caller
RecursionReturn ==
    /\ rcPc = "run"
    /\ Len(rcStack) = 1
    /\ rcStack[1].stage = "return"
    /\ rcOut' = rcStack[1].val
    /\ rcStack' = <<>>
    /\ rcPc' = "done"
    /\ UNCHANGED <<rcInput, rcEpsilon, rcMem>>

\* the caller has the result and drops it
RecursionDone ==
    /\ rcPc = "done"
    /\ rcPc' = "idle"
    /\ rcInput' = <<>>
    /\ rcEpsilon' = 0
    /\ rcMem' = <<>>
    /\ rcStack' = <<>>
    /\ rcOut' = NoSlice

RecursionInit ==
    /\ rcPc = "idle"
    /\ rcInput = <<>>
    /\ rcEpsilon = 0
    /\ rcMem = <<>>
    /\ rcStack = <<>>
    /\ rcOut = NoSlice

\* a caller of simplifyPath with a polyline of 0..MaxLen points
RecursionRequest ==
    /\ rcPc = "idle"
    /\ \E n \in 0..MaxLen :
           \E path \in [1..n -> LatticePoints], epsilon \in 1..MaxEps :
               RecursionCall(path, epsilon)

RecursionNext ==
    \/ RecursionRequest
    \/ RecursionEnter
    \/ RecursionCollect
    \/ RecursionReturn
    \/ RecursionDone

(* --------------- services/simulator.go: AGVSimulator ------------------- *)
VARIABLES
    IsRunning,   \* sim.IsRunning
    loopPc,      \* per goroutine of runSimulation: "none" before it is
                 \* started, "test" at the loop condition, "select", "update",
                 \* "exited"
    visible,     \* per goroutine, the values of IsRunning its unsynchronised
                 \* read of the loop condition may return
    stopPc,      \* the caller of Stop: "idle", "send" in the send on stopChan
    stopped,     \* Stop has returned and Start has not been called since
    ticks        \* the calls of update() since Stop returned

simulatorVars == <<IsRunning, loopPc, visible, stopPc, stopped, ticks>>

Loops == 1..MaxLoops

\* the goroutines of runSimulation that have not returned
Running == {l \in Loops : loopPc[l] \in {"test", "select", "update"}}

\* a write of IsRunning by a goroutine other than the loops: no lock and no
\* channel operation orders it with their reads
Written(v) == [l \in Loops |-> IF l \in Running THEN visible[l] \cup {v} ELSE visible[l]]

\* AGVSimulator.Start, simulator.go:53-63, called by POST /simulator/start
\* (main.go:441-447)
SimulatorStart ==
    /\ ~IsRunning
    /\ \E l \in Loops :
           /\ loopPc[l] = "none"
           /\ \A k \in Loops : k < l => loopPc[k] # "none"
           /\ IsRunning' = TRUE
           /\ loopPc' = [loopPc EXCEPT ![l] = "test"]
           /\ visible' = [Written(TRUE) EXCEPT ![l] = {TRUE}]
    /\ stopped' = FALSE
    /\ ticks' = 0
    /\ UNCHANGED stopPc

\* AGVSimulator.Stop up to its send, simulator.go:66-72, called by POST
\* /simulator/stop (main.go:449-455)
SimulatorStop ==
    /\ stopPc = "idle"
    /\ IsRunning
    /\ IsRunning' = FALSE
    /\ visible' = Written(FALSE)
    /\ stopPc' = "send"
    /\ UNCHANGED <<loopPc, stopped, ticks>>

\* sim.stopChan <- true meets case <-sim.stopChan of a goroutine in its
\* select (simulator.go:72, 85-86): the goroutine returns, and so does Stop
StopReceived(l) ==
    /\ stopPc = "send"
    /\ loopPc[l] = "select"
    /\ loopPc' = [loopPc EXCEPT ![l] = "exited"]
    /\ stopPc' = "idle"
    /\ stopped' = TRUE
    /\ ticks' = 0
    /\ UNCHANGED <<IsRunning, visible>>

\* for sim.IsRunning, simulator.go:81
LoopTest(l) ==
    /\ loopPc[l] = "test"
    /\ \E v \in visible[l] :
           loopPc' = [loopPc EXCEPT ![l] = IF v THEN "select" ELSE "exited"]
    /\ UNCHANGED <<IsRunning, visible, stopPc, stopped, ticks>>

\* case <-ticker.C, simulator.go:83
LoopTick(l) ==
    /\ loopPc[l] = "select"
    /\ loopPc' = [loopPc EXCEPT ![l] = "update"]
    /\ UNCHANGED <<IsRunning, visible, stopPc, stopped, ticks>>

\* sim.update() runs and returns, simulator.go:84, 92-125
LoopUpdate(l) ==
    /\ loopPc[l] = "update"
    /\ loopPc' = [loopPc EXCEPT ![l] = "test"]
    /\ ticks' = IF stopped /\ ticks < MaxTicks THEN ticks + 1 ELSE ticks
    /\ UNCHANGED <<IsRunning, visible, stopPc, stopped>>

SimulatorInit ==
    /\ IsRunning = FALSE
    /\ loopPc = [l \in Loops |-> "none"]
    /\ visible = [l \in Loops |-> {}]
    /\ stopPc = "idle"
    /\ stopped = FALSE
    /\ ticks = 0

SimulatorNext ==
    \/ SimulatorStart
    \/ SimulatorStop
    \/ \E l \in Loops : StopReceived(l)
    \/ \E l \in Loops : LoopTest(l)
    \/ \E l \in Loops : LoopTick(l)
    \/ \E l \in Loops : LoopUpdate(l)

(* ------------- services/simulator.go: CommentaryService ---------------- *)
VARIABLES
    eventQueue,  \* cs.eventQueue, a buffered channel of CommentaryEvent
    enabled,     \* cs.enabled
    procPc,      \* the goroutine of processEvents: "none", "select", "exited"
    periodicPc,  \* the goroutine of periodicCommentary, likewise
    csStopPc,    \* the caller of Stop: "idle", "send" in the send on stopChan
    csStopped,   \* a call of Stop has returned
    handled      \* the event processEvents took last, or NoEvent

commentaryVars ==
    <<eventQueue, enabled, procPc, periodicPc, csStopPc, csStopped, handled>>

EventTargetDefeated == "target_defeated"
EventTargetFound == "target_found"
EventIdle == "idle_status"
EventPeriodicUpdate == "periodic_update"

\* the event types of the model: three of eventPriority, and one that the
\* table does not hold
EventTypes == {EventTargetDefeated, EventTargetFound, EventPeriodicUpdate, "custom"}

\* simulator.go:363-376; a type that is not a key gives the zero value
eventPriority(type) ==
    IF type = EventTargetDefeated THEN 100
    ELSE IF type = EventTargetFound THEN 80
    ELSE IF type = EventIdle THEN 10
    ELSE IF type = EventPeriodicUpdate THEN 5
    ELSE 0

CommentaryEvent(type, priority) == [Type |-> type, Priority |-> priority]

NoEvent == CommentaryEvent("", 0)

\* case cs.eventQueue <- event, simulator.go:481: a send into the channel
enqueue(queue, event) == Append(queue, event)

\* CommentaryService.QueueEvent, simulator.go:459-487: nothing when disabled;
\* the event is dropped when the channel is full
QueueEvent(type) ==
    LET priority == IF eventPriority(type) = 0 THEN 10 ELSE eventPriority(type)
    IN  eventQueue' =
            IF ~enabled \/ Len(eventQueue) >= MaxEvents THEN eventQueue
            ELSE enqueue(eventQueue, CommentaryEvent(type, priority))

\* a caller of QueueEvent: the simulator, or POST /api/commentary/event
\* (main.go:129)
CommentaryQueue(type) ==
    /\ QueueEvent(type)
    /\ UNCHANGED <<enabled, procPc, periodicPc, csStopPc, csStopped, handled>>

\* CommentaryService.SetEnabled, simulator.go:405-414
SetEnabled(e) ==
    /\ enabled' = e
    /\ UNCHANGED <<eventQueue, procPc, periodicPc, csStopPc, csStopped, handled>>

\* CommentaryService.Start, simulator.go:392-396
CommentaryStart ==
    /\ procPc = "none" /\ periodicPc = "none"
    /\ procPc' = "select"
    /\ periodicPc' = "select"
    /\ UNCHANGED <<eventQueue, enabled, csStopPc, csStopped, handled>>

\* CommentaryService.Stop up to its send, simulator.go:399-400
CommentaryStop ==
    /\ csStopPc = "idle"
    /\ procPc # "none"
    /\ csStopPc' = "send"
    /\ UNCHANGED <<eventQueue, enabled, procPc, periodicPc, csStopped, handled>>

\* the send of Stop meets case <-cs.stopChan of processEvents (simulator.go:
\* 429-430): that goroutine returns, and so does Stop
StopMeetsProcess ==
    /\ csStopPc = "send"
    /\ procPc = "select"
    /\ procPc' = "exited"
    /\ csStopPc' = "idle"
    /\ csStopped' = TRUE
    /\ UNCHANGED <<eventQueue, enabled, periodicPc, handled>>

\* the send of Stop meets case <-cs.stopChan of periodicCommentary
\* (simulator.go:452-453)
StopMeetsPeriodic ==
    /\ csStopPc = "send"
    /\ periodicPc = "select"
    /\ periodicPc' = "exited"
    /\ csStopPc' = "idle"
    /\ csStopped' = TRUE
    /\ UNCHANGED <<eventQueue, enabled, procPc, handled>>

\* case event := <-cs.eventQueue with handleEvent, simulator.go:427-428
ProcessEvent ==
    /\ procPc = "select"
    /\ eventQueue # <<>>
    /\ handled' = Head(eventQueue)
    /\ eventQueue' = Tail(eventQueue)
    /\ UNCHANGED <<enabled, procPc, periodicPc, csStopPc, csStopped>>

\* case <-ticker.C of periodicCommentary, simulator.go:442-451
PeriodicTick ==
    /\ periodicPc = "select"
    /\ QueueEvent(EventPeriodicUpdate)
    /\ UNCHANGED <<enabled, procPc, periodicPc, csStopPc, csStopped, handled>>

CommentaryInit ==
    /\ eventQueue = <<>>
    /\ enabled = TRUE
    /\ procPc = "none"
    /\ periodicPc = "none"
    /\ csStopPc = "idle"
    /\ csStopped = FALSE
    /\ handled = NoEvent

CommentaryNext ==
    \/ \E type \in EventTypes : CommentaryQueue(type)
    \/ \E e \in BOOLEAN : SetEnabled(e)
    \/ CommentaryStart
    \/ CommentaryStop
    \/ StopMeetsProcess
    \/ StopMeetsPeriodic
    \/ ProcessEvent
    \/ PeriodicTick

(* ----------------- services: LogBuffer (logging service) ---------------- *)

\* logs          LogBuffer.logs, the entries waiting in the buffer
\* added         the entries AddLog has appended so far
\* before        the entries appended before StopLogging was called
\* spawned       the goroutines started by "go logBuffer.Flush()" that have
\*               not taken the mutex yet
\* saving        logsToSave of the size-triggered Flush goroutines that are
\*               between the unlock and db.CreateInBatches
\* autoPc        position of the autoFlush goroutine
\* logsToSave    logsToSave of the Flush that autoFlush is running
\* batches       the batches handed to db.CreateInBatches, in order
\* stopLoggingPc position of main in StopLogging: "idle" before the call,
\*               "send" in the channel send, "returned" after it, "exited"
\*               once main has returned and the process has ended
VARIABLES logs, added, before, spawned, saving, autoPc, logsToSave, batches,
          stopLoggingPc

logVars == <<logs, added, before, spawned, saving, autoPc, logsToSave,
             batches, stopLoggingPc>>

LogEntries == 1..MaxEntries

\* the process is alive: goroutines run until main returns
Alive == stopLoggingPc # "exited"

\* AddLog: append under the mutex; with size >= flushSize start a goroutine
\* that runs Flush
AddLog(logEntry) ==
    /\ Alive
    /\ logEntry \notin added
    /\ logs' = Append(logs, logEntry)
    /\ added' = added \cup {logEntry}
    /\ spawned' = IF Len(logs') >= flushSize THEN spawned + 1 ELSE spawned
    /\ UNCHANGED <<before, saving, autoPc, logsToSave, batches, stopLoggingPc>>

\* Flush of a size-triggered goroutine, the part under the mutex: return on
\* an empty buffer, else copy the entries and empty the buffer
FlushLocked ==
    /\ Alive
    /\ spawned > 0
    /\ spawned' = spawned - 1
    /\ saving' = IF logs = <<>> THEN saving ELSE saving \cup {logs}
    /\ logs' = <<>>
    /\ UNCHANGED <<added, before, autoPc, logsToSave, batches, stopLoggingPc>>

\* Flush of a size-triggered goroutine, after the unlock: hand the copy to
\* the database
FlushSave(toSave) ==
    /\ Alive
    /\ toSave \in saving
    /\ batches' = Append(batches, toSave)
    /\ saving' = saving \ {toSave}
    /\ UNCHANGED <<logs, added, before, spawned, autoPc, logsToSave,
                   stopLoggingPc>>

\* autoFlush, case <-ticker.C: Flush, the part under the mutex
AutoFlushTick ==
    /\ Alive
    /\ autoPc = "select"
    /\ IF logs = <<>>
       THEN UNCHANGED <<logs, autoPc, logsToSave>>
       ELSE /\ logsToSave' = logs
            /\ logs' = <<>>
            /\ autoPc' = "save"
    /\ UNCHANGED <<added, before, spawned, saving, batches, stopLoggingPc>>

\* autoFlush, case <-lb.stopChan: the receive completes the send of
\* StopLogging, which returns; autoFlush goes on to its last Flush
AutoFlushStop ==
    /\ Alive
    /\ autoPc = "select"
    /\ stopLoggingPc = "send"
    /\ stopLoggingPc' = "returned"
    /\ autoPc' = "final"
    /\ UNCHANGED <<logs, added, before, spawned, saving, logsToSave, batches>>

\* autoFlush, the last Flush, the part under the mutex
AutoFlushFinal ==
    /\ Alive
    /\ autoPc = "final"
    /\ IF logs = <<>>
       THEN /\ autoPc' = "exited"
            /\ UNCHANGED <<logs, logsToSave>>
       ELSE /\ logsToSave' = logs
            /\ logs' = <<>>
            /\ autoPc' = "finalsave"
    /\ UNCHANGED <<added, before, spawned, saving, batches, stopLoggingPc>>

\* Flush run by autoFlush, after the unlock: hand the copy to the database,
\* then back to the select, or return after the last Flush
AutoFlushSave ==
    /\ Alive
    /\ autoPc \in {"save", "finalsave"}
    /\ batches' = Append(batches, logsToSave)
    /\ logsToSave' = <<>>
    /\ autoPc' = IF autoPc = "save" THEN "select" ELSE "exited"
    /\ UNCHANGED <<logs, added, before, spawned, saving, stopLoggingPc>>

\* StopLogging is called (the deferred call of main): it starts the send on
\* the unbuffered stopChan
StopLogging ==
    /\ stopLoggingPc = "idle"
    /\ stopLoggingPc' = "send"
    /\ before' = added
    /\ UNCHANGED <<logs, added, spawned, saving, autoPc, logsToSave, batches>>

\* main returns after its deferred StopLogging: the process ends and with it
\* every goroutine
MainReturns ==
    /\ stopLoggingPc = "returned"
    /\ stopLoggingPc' = "exited"
    /\ UNCHANGED <<logs, added, before, spawned, saving, autoPc, logsToSave,
                   batches>>

\* InitLogging: an empty buffer, autoFlush started
LogInit ==
    /\ logs = <<>>
    /\ added = {}
    /\ before = {}
    /\ spawned = 0
    /\ saving = {}
    /\ autoPc = "select"
    /\ logsToSave = <<>>
    /\ batches = <<>>
    /\ stopLoggingPc = "idle"

LogNext ==
    \/ \E logEntry \in LogEntries : AddLog(logEntry)
    \/ FlushLocked
    \/ \E toSave \in saving : FlushSave(toSave)
    \/ AutoFlushTick
    \/ AutoFlushStop
    \/ AutoFlushFinal
    \/ AutoFlushSave
    \/ StopLogging
    \/ MainReturns

(* ------ handlers/agv_manager.go: AGVManager and the AGV connections ------ *)

\* agvInfos      AGVManager.agvs, agv_id -> AGVInfo
\* lastPing      AGVManager.lastPing, agv_id -> time of the last ping
\* now           time.Now(), in units of the cleanup timeout
\* called        the last call of the manager: its name, its agvID and
\*               whether it returned an error
\* agvConns      the AGV WebSocket connections: open or not, and the AGVID of
\*               their Client in ClientManager.clients
\* lastNotice    the type of the last message the AGV handler broadcast
VARIABLES agvInfos, lastPing, now, called, agvConns, lastNotice

registryVars == <<agvInfos, lastPing, now, called, agvConns, lastNotice>>

AgentIDs == {"", "agv1", "agv2"}
AGVConns == 1..MaxAgvConns

\* the status messages an AGV sends: a position, and an optional mode,
\* state, battery and speed; the handler fills in "auto", "idle", 100 and 0
\* for a missing field
StatusMessages ==
    { [position |-> 1, mode |-> "manual", state |-> "moving", battery |-> 50,
       speed |-> 1],
      [position |-> 2, mode |-> "", state |-> "", battery |-> 100,
       speed |-> 0] }

\* the map m with key k set to v, and with key k deleted
put(m, k, v) == [x \in DOMAIN m \cup {k} |-> IF x = k THEN v ELSE m[x]]
delete(m, k) == [x \in DOMAIN m \ {k} |-> m[x]]

\* the AGVInfo of a new registration
NewAGVInfo(agvID) ==
    [ID |-> agvID, RegisteredAt |-> now, LastUpdate |-> now,
     Position |-> [X |-> 0, Timestamp |-> now],
     Mode |-> "auto", State |-> "idle", Battery |-> 100, Speed |-> 0]

\* AGVManager.RegisterAGV
ManagerRegisterAGV(agvID) ==
    IF agvID = ""
    THEN /\ called' = [op |-> "RegisterAGV", agvID |-> agvID, err |-> TRUE]
         /\ UNCHANGED <<agvInfos, lastPing>>
    ELSE /\ called' = [op |-> "RegisterAGV", agvID |-> agvID, err |-> FALSE]
         /\ lastPing' = put(lastPing, agvID, now)
         /\ IF agvID \in DOMAIN agvInfos
            THEN agvInfos' = [agvInfos EXCEPT ![agvID].LastUpdate = now]
            ELSE agvInfos' = put(agvInfos, agvID, NewAGVInfo(agvID))

\* AGVManager.UpdateStatus
UpdateStatus(agvID, position, mode, state, battery, speed) ==
    IF agvID \notin DOMAIN agvInfos
    THEN /\ called' = [op |-> "UpdateStatus", agvID |-> agvID, err |-> TRUE]
         /\ UNCHANGED <<agvInfos, lastPing>>
    ELSE /\ called' = [op |-> "UpdateStatus", agvID |-> agvID, err |-> FALSE]
         /\ agvInfos' = [agvInfos EXCEPT ![agvID] =
                [@ EXCEPT !.Position = [X |-> position, Timestamp |-> now],
                          !.Mode = IF mode # "" THEN mode ELSE @,
                          !.State = IF state # "" THEN state ELSE @,
                          !.Battery = battery,
                          !.Speed = speed,
                          !.LastUpdate = now]]
         /\ lastPing' = put(lastPing, agvID, now)

\* AGVManager.RemoveAGV
ManagerRemoveAGV(agvID) ==
    IF agvID \notin DOMAIN agvInfos
    THEN /\ called' = [op |-> "RemoveAGV", agvID |-> agvID, err |-> TRUE]
         /\ UNCHANGED <<agvInfos, lastPing>>
    ELSE /\ called' = [op |-> "RemoveAGV", agvID |-> agvID, err |-> FALSE]
         /\ agvInfos' = delete(agvInfos, agvID)
         /\ lastPing' = delete(lastPing, agvID)

\* the AGVs whose last ping is older than the timeout
Offline(timeout) == {agvID \in DOMAIN lastPing : now - lastPing[agvID] > timeout}

\* a cleanup that deletes the offline AGVs from agvs and leaves their lastPing
cleanupAgvsOnly(timeout) ==
    /\ called' = [op |-> "CleanupOfflineAGVs", agvID |-> "", err |-> FALSE]
    /\ agvInfos' = [x \in DOMAIN agvInfos \ Offline(timeout) |-> agvInfos[x]]
    /\ UNCHANGED <<lastPing, now, agvConns, lastNotice>>

\* AGVManager.CleanupOfflineAGVs, called by the cleanup goroutine of main
CleanupOfflineAGVs(timeout) ==
    /\ called' = [op |-> "CleanupOfflineAGVs", agvID |-> "", err |-> FALSE]
    /\ agvInfos' = [x \in DOMAIN agvInfos \ Offline(timeout) |-> agvInfos[x]]
    /\ lastPing' = [x \in DOMAIN lastPing \ Offline(timeout) |-> lastPing[x]]
    /\ UNCHANGED <<now, agvConns, lastNotice>>

\* HandleAGVWebSocket, the start: the connection is registered as an AGV
\* client without an AGVID
AGVConnect(c) ==
    /\ ~agvConns[c].open
    /\ agvConns' = [agvConns EXCEPT ![c] = [open |-> TRUE, AGVID |-> ""]]
    /\ UNCHANGED <<agvInfos, lastPing, now, called, lastNotice>>

\* HandleAGVWebSocket, a "registration" message: RegisterAGV; without an
\* error the client takes the ID and the web clients are told
AGVRegistration(c, agentID) ==
    /\ agvConns[c].open
    /\ ManagerRegisterAGV(agentID)
    /\ IF agentID = ""
       THEN UNCHANGED <<agvConns, lastNotice>>
       ELSE /\ agvConns' = [agvConns EXCEPT ![c].AGVID = agentID]
            /\ lastNotice' = "system_info"
    /\ UNCHANGED now

\* HandleAGVWebSocket, a "status" message of a registered connection:
\* UpdateStatus with the fields of the message, the defaults for the missing
\* ones; without an error the statuses are broadcast
AGVStatus(c, msg) ==
    /\ agvConns[c].open
    /\ agvConns[c].AGVID # ""
    /\ UpdateStatus(agvConns[c].AGVID, msg.position,
                    IF msg.mode = "" THEN "auto" ELSE msg.mode,
                    IF msg.state = "" THEN "idle" ELSE msg.state,
                    msg.battery, msg.speed)
    /\ lastNotice' = IF agvConns[c].AGVID \in DOMAIN agvInfos
                     THEN "agv_status_update" ELSE lastNotice
    /\ UNCHANGED <<now, agvConns>>

\* the connection ends: the handler sends it on unregister, and the manager
\* loop deletes the client and removes the AGV of its AGVID
AGVUnregister(c) ==
    /\ agvConns[c].open
    /\ agvConns' = [agvConns EXCEPT ![c] = [open |-> FALSE, AGVID |-> ""]]
    /\ IF agvConns[c].AGVID # ""
       THEN ManagerRemoveAGV(agvConns[c].AGVID)
       ELSE UNCHANGED <<agvInfos, lastPing, called>>
    /\ UNCHANGED <<now, lastNotice>>

\* time passes
ClockTick ==
    /\ now < MaxTime
    /\ now' = now + 1
    /\ UNCHANGED <<agvInfos, lastPing, called, agvConns, lastNotice>>

\* NewAGVManager, and no connection yet
RegistryInit ==
    /\ agvInfos = [agvID \in {} |-> NewAGVInfo(agvID)]
    /\ lastPing = [agvID \in {} |-> 0]
    /\ now = 0
    /\ called = [op |-> "NewAGVManager", agvID |-> "", err |-> FALSE]
    /\ agvConns = [c \in AGVConns |-> [open |-> FALSE, AGVID |-> ""]]
    /\ lastNotice = "none"

RegistryNext ==
    \/ \E c \in AGVConns : AGVConnect(c)
    \/ \E c \in AGVConns, agentID \in AgentIDs : AGVRegistration(c, agentID)
    \/ \E c \in AGVConns, msg \in StatusMessages : AGVStatus(c, msg)
    \/ \E c \in AGVConns : AGVUnregister(c)
    \/ CleanupOfflineAGVs(OfflineTimeout)
    \/ ClockTick

(* --------- main.go: POST /api/map/goal against map generation ----------- *)

\* mapGrid       mg.activeMap with its obstacles and goals: NoGrid for nil
\* gridCount     the maps generated so far
\* autoGenerated the flag of the goroutine that generates the first map
\* goalPc        the handler of POST /api/map/goal: "idle", "valid" after
\*               IsPositionValid, "added" after AddGoal
\* goalReq       the position and radius of the request it is handling
\* goalFor       the ID of the map that IsPositionValid looked at
\* announced     the messages the handler has broadcast
\* goalStatus    the HTTP status of its last response, 0 before the first
VARIABLES mapGrid, gridCount, autoGenerated, goalPc, goalReq, goalFor,
          announced, goalStatus

goalVars == <<mapGrid, gridCount, autoGenerated, goalPc, goalReq, goalFor,
              announced, goalStatus>>

NoGrid == [ID |-> 0, Width |-> 0, Height |-> 0, Obstacles |-> {}, Goals |-> <<>>]

\* an obstacle: a circle, the radius in tenths of a metre
Obstacle(position, radius) == [Position |-> position, Radius |-> radius]

\* generateObstacles: centres between 10% and 90% of the width and of the
\* height, radii from 0.5 m up to 1.5 m; the random draws are any of the
\* centres of ObstacleCentres that lie in that range, with a radius of 1 m
generateObstacles(width, height) ==
    { obstacles \in SUBSET { Obstacle(p, 10) : p \in
            { q \in ObstacleCentres :
                  /\ 10 * q.X >= width /\ 10 * q.X <= 9 * width
                  /\ 10 * q.Y >= height /\ 10 * q.Y <= 9 * height } } :
        Cardinality(obstacles) = ObstacleCount }

\* IsPositionValid on the map grid: a map exists, the position is not
\* outside it, and its distance to the centre of every obstacle is not below
\* the radius of the obstacle
PositionValidIn(g, pos) ==
    /\ g # NoGrid
    /\ ~(pos.X < 0 \/ pos.X > g.Width \/ pos.Y < 0 \/ pos.Y > g.Height)
    /\ \A obstacle \in g.Obstacles :
           ~(100 * ((pos.X - obstacle.Position.X) * (pos.X - obstacle.Position.X)
                    + (pos.Y - obstacle.Position.Y) * (pos.Y - obstacle.Position.Y))
               < obstacle.Radius * obstacle.Radius)

IsPositionValid(pos) == PositionValidIn(mapGrid, pos)

\* GenerateMap: a map with a fresh ID, fresh obstacles and no goals replaces
\* the active map
GenerateGrid(width, height, obstacles) ==
    /\ gridCount < MaxGrids
    /\ gridCount' = gridCount + 1
    /\ mapGrid' = [ID |-> gridCount + 1, Width |-> width, Height |-> height,
                   Obstacles |-> obstacles, Goals |-> <<>>]

\* POST /api/map/generate: a size of 0 is replaced by the default
ManualGenerate(width, height) ==
    LET w == IF width = 0 THEN DefaultWidth ELSE width
        h == IF height = 0 THEN DefaultHeight ELSE height
    IN  /\ \E obstacles \in generateObstacles(w, h) : GenerateGrid(w, h, obstacles)
        /\ UNCHANGED <<autoGenerated, goalPc, goalReq, goalFor, announced,
                       goalStatus>>

\* checkSystemReadyAndGenerateMap: the goroutine generates one map of the
\* default size when an AGV and a client are connected
AutoGenerate ==
    /\ ~autoGenerated
    /\ autoGenerated' = TRUE
    /\ \E obstacles \in generateObstacles(DefaultWidth, DefaultHeight) :
           GenerateGrid(DefaultWidth, DefaultHeight, obstacles)
    /\ UNCHANGED <<goalPc, goalReq, goalFor, announced, goalStatus>>

\* POST /api/map/goal, up to IsPositionValid: a radius of 0 becomes 0.5 m;
\* an invalid position is answered with 400
GoalValidate(pos, radius) ==
    /\ goalPc = "idle"
    /\ goalReq' = [Position |-> pos, Radius |-> IF radius = 0 THEN 5 ELSE radius]
    /\ goalFor' = mapGrid.ID
    /\ IF IsPositionValid(pos)
       THEN goalPc' = "valid" /\ UNCHANGED goalStatus
       ELSE goalPc' = "idle" /\ goalStatus' = 400
    /\ UNCHANGED <<mapGrid, gridCount, autoGenerated, announced>>

\* AddGoal: the goal is appended to the goals of the active map, pending
GoalAdd ==
    /\ goalPc = "valid"
    /\ IF mapGrid = NoGrid
       THEN /\ goalPc' = "idle"
            /\ goalStatus' = 500
            /\ UNCHANGED mapGrid
       ELSE /\ mapGrid' = [mapGrid EXCEPT !.Goals =
                   Append(@, [Position |-> goalReq.Position, Status |-> "pending",
                              Radius |-> goalReq.Radius])]
            /\ goalPc' = "added"
            /\ UNCHANGED goalStatus
    /\ UNCHANGED <<gridCount, autoGenerated, goalReq, goalFor, announced>>

\* the broadcasts of goal_set and agv_command, and the response
GoalAnnounce ==
    /\ goalPc = "added"
    /\ announced' = announced \cup
           { [Type |-> "goal_set", Position |-> goalReq.Position],
             [Type |-> "agv_command", Position |-> goalReq.Position] }
    /\ goalStatus' = 200
    /\ goalPc' = "idle"
    /\ UNCHANGED <<mapGrid, gridCount, autoGenerated, goalReq, goalFor>>

\* NewMapGenerator: no map yet
GoalInit ==
    /\ mapGrid = NoGrid
    /\ gridCount = 0
    /\ autoGenerated = FALSE
    /\ goalPc = "idle"
    /\ goalReq = [Position |-> Point(0, 0), Radius |-> 5]
    /\ goalFor = 0
    /\ announced = {}
    /\ goalStatus = 0

GoalNext ==
    \/ \E size \in {0, 10} : ManualGenerate(size, size)
    \/ AutoGenerate
    \/ /\ goalPc = "idle"
       /\ Len(mapGrid.Goals) < MaxGridGoals
       /\ \E pos \in GoalPositions, radius \in {0, 10} : GoalValidate(pos, radius)
    \/ GoalAdd
    \/ GoalAnnounce

(* --------------------------- specification ----------------------------- *)
GridInit ==
    /\ grid = NewGrid(0, 0)
    /\ start = Point(0, 0)
    /\ goal = Point(0, 0)
    /\ pc = "idle"
    /\ nodes = <<>>
    /\ openList = <<>>
    /\ closedSet = {}
    /\ gScores = [k \in {} |-> 0]
    /\ resp = NoResponse
    /\ body = NoBody

GridNext ==
    \/ ClientRequest
    \/ MalformedRequest
    \/ FindPathExpand
    \/ FindPathReached
    \/ FindPathExhausted
    \/ HandlerReturn

SimplifyInit ==
    /\ spPc = "idle"
    /\ spInput = <<>>
    /\ spPath = <<>>
    /\ spEpsilon = 0
    /\ spResult = <<>>

SimplifyNext ==
    \/ SimplifyRequest
    \/ SimplifyReturn

PathFinderInit ==
    /\ pfPc = "idle"
    /\ pf = NewPathFinder(0, 0, 1, {})
    /\ pfStart = Point(0, 0)
    /\ pfGoal = Point(0, 0)
    /\ goalNode = worldToGrid(NewPathFinder(0, 0, 1, {}), 0, 0)
    /\ pfNodes = <<>>
    /\ openSet = <<>>
    /\ pfClosedSet = {}
    /\ pfResult = NoResult

PathFinderNext ==
    \/ PathFinderCall
    \/ PathFinderExpand
    \/ PathFinderReached
    \/ PathFinderExhausted
    \/ PathFinderReturn

vars == <<gridVars, simplifyVars, pathFinderVars, noted, callVars, wsVars, mapVars,
         recursionVars, simulatorVars, commentaryVars, logVars, registryVars, goalVars>>

Init ==
    /\ GridInit /\ SimplifyInit /\ PathFinderInit /\ noted = NoNote /\ CallsInit
    /\ WsInit /\ MapInit /\ RecursionInit /\ SimulatorInit /\ CommentaryInit /\ LogInit /\ RegistryInit /\ GoalInit

\* POST /api/pathfinding
Next == GridNext /\ UNCHANGED <<simplifyVars, pathFinderVars, noted, callVars, wsVars, mapVars,
         recursionVars, simulatorVars, commentaryVars, logVars, registryVars, goalVars>>
Spec == Init /\ [][Next]_vars

\* POST /api/pathfinding with a client that compares the failures it gets
ClientNext ==
    \/ ClientRequest /\ UNCHANGED noted
    \/ FindPathExpand /\ UNCHANGED noted
    \/ FindPathReached /\ UNCHANGED noted
    \/ FindPathExhausted /\ UNCHANGED noted
    \/ HandlerReturn /\ ClientReads
ClientSpec == Init /\ [][ClientNext /\ UNCHANGED <<simplifyVars, pathFinderVars, callVars, wsVars, mapVars,
                             recursionVars, simulatorVars, commentaryVars, logVars, registryVars, goalVars>>]_vars

\* calls of simplifyPath
SimplifySpec ==
    Init /\ [][SimplifyNext /\ UNCHANGED <<gridVars, pathFinderVars, noted, callVars, wsVars, mapVars,
                             recursionVars, simulatorVars, commentaryVars, logVars, registryVars, goalVars>>]_vars

\* calls of PathFinder.FindPath
PathFinderSpec ==
    Init /\ [][PathFinderNext /\ UNCHANGED <<gridVars, simplifyVars, noted, callVars, wsVars, mapVars,
                             recursionVars, simulatorVars, commentaryVars, logVars, registryVars, goalVars>>]_vars

\* calls of both planners, one call at a time
SearchNext ==
    \/ pfPc = "idle" /\ GridNext /\ UNCHANGED pathFinderVars
    \/ pc = "idle" /\ PathFinderNext /\ UNCHANGED gridVars
SearchSpec == Init /\ [][SearchNext /\ UNCHANGED <<simplifyVars, noted, callVars, wsVars, mapVars,
                             recursionVars, simulatorVars, commentaryVars, logVars, registryVars, goalVars>>]_vars

\* calls of Grid.FindPath on one grid by several goroutines, and calls of
\* simplifyPath; the two have no state in common, and the calls of
\* simplifyPath are made before the first grid is built
CallsSpecNext ==
    \/ spPc = "idle" /\ CallsNext /\ UNCHANGED simplifyVars
    \/ shared = NewGrid(0, 0) /\ SimplifyNext /\ UNCHANGED callVars
CallsSpec == Init /\ [][CallsSpecNext /\ UNCHANGED <<gridVars, pathFinderVars, noted, wsVars, mapVars,
                             recursionVars, simulatorVars, commentaryVars, logVars, registryVars, goalVars>>]_vars

\* the goroutine of ClientManager.Start and the senders on its channels
BroadcastSpec ==
    Init /\ [][WsNext /\ UNCHANGED <<gridVars, simplifyVars, pathFinderVars, noted,
                                     callVars, mapVars, recursionVars, simulatorVars, commentaryVars, logVars, registryVars, goalVars>>]_vars

\* the map service with its goroutine, its HTTP handlers, and the clients
MapSpec ==
    Init /\ [][MapNext /\ UNCHANGED <<gridVars, simplifyVars, pathFinderVars, noted,
                                      callVars, recursionVars, simulatorVars, commentaryVars, logVars, registryVars, goalVars>>]_vars

\* calls of simplifyPath, followed through their recursive calls
RecursionSpec ==
    Init /\ [][RecursionNext /\ UNCHANGED <<gridVars, simplifyVars, pathFinderVars,
                                            noted, callVars, wsVars, mapVars, simulatorVars, commentaryVars, logVars, registryVars, goalVars>>]_vars

\* the simulator, the callers of its Start and Stop, and its goroutines
SimulatorSpec ==
    Init /\ [][SimulatorNext /\ UNCHANGED <<gridVars, simplifyVars, pathFinderVars, noted, callVars, wsVars, mapVars, recursionVars, commentaryVars, logVars, registryVars, goalVars>>]_vars

\* the commentary service with its two goroutines and its callers
CommentarySpec ==
    Init /\ [][CommentaryNext /\ UNCHANGED <<gridVars, simplifyVars, pathFinderVars, noted, callVars, wsVars, mapVars, recursionVars, simulatorVars, logVars, registryVars, goalVars>>]_vars

\* the log buffer: AddLog, the flushes and StopLogging
LogSpec ==
    Init /\ [][LogNext /\ UNCHANGED <<gridVars, simplifyVars, pathFinderVars, noted, callVars, wsVars, mapVars, recursionVars, simulatorVars, commentaryVars, registryVars, goalVars>>]_vars

\* the AGV registry: the AGV connections, the manager and its cleanup
RegistrySpec ==
    Init /\ [][RegistryNext /\ UNCHANGED <<gridVars, simplifyVars, pathFinderVars, noted, callVars, wsVars, mapVars, recursionVars, simulatorVars, commentaryVars, logVars, goalVars>>]_vars

\* the goals of the active map: POST /api/map/goal and the generation of maps
GoalSpec ==
    Init /\ [][GoalNext /\ UNCHANGED <<gridVars, simplifyVars, pathFinderVars, noted, callVars, wsVars, mapVars, recursionVars, simulatorVars, commentaryVars, logVars, registryVars>>]_vars

(* ----------------- reference notions used by the properties ------------ *)
InBounds(g, p) == p.X >= 0 /\ p.Y >= 0 /\ p.X < g.Width /\ p.Y < g.Height
Blocked(g, p)  == <<p.X, p.Y>> \in g.Obstacles
FreeCells(g)   == {p \in Cells(g.Width, g.Height) : ~Blocked(g, p)}

\* q is one of the 8 neighbour offsets away from p
Adjacent(p, q) ==
    /\ Abs(p.X - q.X) <= 1
    /\ Abs(p.Y - q.Y) <= 1
    /\ p # q

Offsets == ((-1)..1) \X ((-1)..1) \ {<<0, 0>>}

RECURSIVE ReachFrom(_, _)
\* the free cells connected to the cells of S by 8-connected free cells
ReachFrom(g, S) ==
    LET T == S \cup {q \in FreeCells(g) : \E p \in S : Adjacent(p, q)}
    IN  IF T = S THEN S ELSE ReachFrom(g, T)

Reachable(g, s, t) == t \in ReachFrom(g, {s})

\* A cost is [a, b]: the real number a + b * sqrt(2), a orthogonal and b
\* diagonal steps.  CostLess compares two such numbers exactly.
Cost(a, b) == [a |-> a, b |-> b]
CostLess(c, d) ==
    LET p == d.a - c.a
        q == c.b - d.b
    IN  IF q <= 0 THEN p > 0 \/ 2 * q * q > p * p
        ELSE p > 0 /\ p * p > 2 * q * q

StepCost(p, q) == IF p.X # q.X /\ p.Y # q.Y THEN Cost(0, 1) ELSE Cost(1, 0)
CostPlus(c, d) == Cost(c.a + d.a, c.b + d.b)

RECURSIVE PathCostFrom(_, _)
PathCostFrom(path, i) ==
    IF i >= Len(path) THEN Cost(0, 0)
    ELSE CostPlus(StepCost(path[i], path[i + 1]), PathCostFrom(path, i + 1))

PathCost(path) == PathCostFrom(path, 1)

NoCost == Cost(-1, -1)
CostMin(S) == CHOOSE c \in S : \A d \in S : ~CostLess(d, c)

RECURSIVE Relax(_, _, _)
\* Bellman-Ford rounds over the free cells, from the cell s
Relax(g, free, dist) ==
    LET new == [c \in free |->
                  LET nbrs == {Point(c.X + d[1], c.Y + d[2]) : d \in Offsets} \cap free
                      via == {CostPlus(dist[n], StepCost(n, c)) :
                                 n \in {m \in nbrs : dist[m] # NoCost}}
                      cand == via \cup (IF dist[c] = NoCost THEN {} ELSE {dist[c]})
                  IN  IF cand = {} THEN NoCost ELSE CostMin(cand)]
    IN  IF new = dist THEN dist ELSE Relax(g, free, new)

\* the minimum cost of an 8-connected sequence of free cells from s to t
MinCost(g, s, t) ==
    Relax(g, FreeCells(g), [c \in FreeCells(g) |-> IF c = s THEN Cost(0, 0) ELSE NoCost])[t]

\* the precondition of the contract: distinct, in-bounds, unblocked endpoints
ProperEndpoints ==
    /\ start # goal
    /\ InBounds(grid, start) /\ InBounds(grid, goal)
    /\ ~Blocked(grid, start) /\ ~Blocked(grid, goal)

Diagonal(n) == [i \in 1..(n + 1) |-> Point(i - 1, i - 1)]

(* ------------------------------ properties ----------------------------- *)

\* C1: a path returned for distinct, in-bounds, unblocked endpoints has the
\* minimum cost 1 per orthogonal and sqrt(2) per diagonal step of all
\* 8-connected free paths; on the empty 20 x 20 grid (0,0) -> (10,10) is
\* answered with the 11 cells of the diagonal.
C1_Optimal ==
    (pc = "done" /\ resp.Success /\ ProperEndpoints) =>
        /\ PathCost(resp.Path) = MinCost(grid, start, goal)
        /\ (grid = NewGrid(20, 20) /\ start = Point(0, 0) /\ goal = Point(10, 10)) =>
               resp.Path = Diagonal(10)

\* a returned path that goes around an obstacle
C1_Witness ==
    /\ pc = "done" /\ resp.Success /\ ProperEndpoints
    /\ grid.Obstacles # {}
    /\ Len(resp.Path) >= 4
    /\ CostLess(Cost(Abs(start.X - goal.X), 0), PathCost(resp.Path))
    /\ CostLess(Cost(Abs(start.Y - goal.Y), 0), PathCost(resp.Path))

\* C2: consecutive waypoints of every returned path are 8-neighbours and no
\* waypoint, first and last included, is blocked or outside the grid.
C2_ValidPath ==
    (pc = "done" /\ resp.Success) =>
        /\ \A i \in 1..(Len(resp.Path) - 1) : Adjacent(resp.Path[i], resp.Path[i + 1])
        /\ \A i \in 1..Len(resp.Path) :
               InBounds(grid, resp.Path[i]) /\ ~Blocked(grid, resp.Path[i])

\* C3: for distinct, in-bounds, unblocked endpoints a path is returned
\* exactly when the goal is reachable; when it is not, the call fails with
\* the open list exhausted.
C3_Complete ==
    (pc = "done" /\ ProperEndpoints) =>
        /\ resp.Success <=> Reachable(grid, start, goal)
        /\ ~resp.Success => openList = <<>>

\* an unreachable goal answered with failure after a search
C3_Witness ==
    /\ pc = "done" /\ ProperEndpoints
    /\ ~Reachable(grid, start, goal)
    /\ ~resp.Success
    /\ Cardinality(closedSet) >= 2

\* C4: with start # goal and an endpoint outside the grid, no node is
\* expanded and the answer is failure.
C4_OutOfBounds ==
    (pc # "idle" /\ start # goal /\ (~InBounds(grid, start) \/ ~InBounds(grid, goal))) =>
        /\ closedSet = {}
        /\ pc = "done" => ~resp.Success

\* C5: with start # goal and a blocked endpoint, the call fails without
\* searching.
C5_Blocked ==
    (pc # "idle" /\ start # goal /\ (Blocked(grid, start) \/ Blocked(grid, goal))) =>
        /\ closedSet = {}
        /\ pc = "done" => ~resp.Success

\* C7: two failed requests with different causes (an endpoint out of bounds,
\* an endpoint blocked, no path) are answered with different messages.
C7_Distinguishable ==
    (pc = "done" /\ ~resp.Success /\ noted # NoNote
        /\ noted.cause # Cause(grid, start, goal)) =>
            noted.message # resp.Message

\* the cells a search of Grid.FindPath can still close, and the entries of the
\* open list whose cell is closed
GridUnclosed ==
    ({pointKey(c) : c \in FreeCells(grid)} \cup {pointKey(start)}) \ closedSet
GridStale == {i \in 1..Len(openList) : pointKey(nodes[openList[i]].Point) \in closedSet}

\* the same for PathFinder.FindPath
PathFinderUnclosed ==
    {nodeKey(x, y) : x \in 0..(pf.gridWidth - 1), y \in 0..(pf.gridHeight - 1)}
        \ pfClosedSet
PathFinderStale ==
    {i \in 1..Len(openSet) :
        nodeKey(pfNodes[openSet[i]].x, pfNodes[openSet[i]].y) \in pfClosedSet}

\* a call that has failed has an empty open set
SearchFailsEmpty ==
    /\ (pc = "done" /\ ~resp.Success) => openList = <<>>
    /\ (pfPc = "done" /\ ~pfResult.ok) => openSet = <<>>

\* a step of a call in its loop returns, or closes a cell, or takes an entry
\* of a closed cell from the open set and adds none
SearchDecreases ==
    /\ pc = "search" =>
           \/ pc' = "done"
           \/ Cardinality(GridUnclosed') < Cardinality(GridUnclosed)
           \/ /\ GridUnclosed' = GridUnclosed
              /\ Cardinality(GridStale') < Cardinality(GridStale)
    /\ pfPc = "search" =>
           \/ pfPc' = "done"
           \/ Cardinality(PathFinderUnclosed') < Cardinality(PathFinderUnclosed)
           \/ /\ PathFinderUnclosed' = PathFinderUnclosed
              /\ Cardinality(PathFinderStale') < Cardinality(PathFinderStale)

\* C8: every call of Grid.FindPath and of PathFinder.FindPath returns, with a
\* path or with failure and an empty open set: each iteration of the loop
\* returns or decreases the pair (cells not yet closed, open entries of closed
\* cells), so the iterations and the insertions into the open set are
\* finitely many.
C8_Terminates == []SearchFailsEmpty /\ [][SearchDecreases]_vars

\* a call of PathFinder.FindPath that fails after a search in which cells were
\* pushed more than once
C8_Witness ==
    /\ pfPc = "done" /\ ~pfResult.ok
    /\ Cardinality(pfClosedSet) >= 4
    /\ Len(pfNodes) > Cardinality(pfClosedSet)
    /\ openSet = <<>>

\* the path found by the search of the call that has returned
RawPath ==
    IF start = goal THEN <<start>>
    ELSE reconstructPath(nodes, openList[minFIndex(nodes, openList)])

\* grid coordinates in halves of a cell
InHalves(path) == [i \in 1..Len(path) |-> Point(2 * path[i].X, 2 * path[i].Y)]

DouglasPeucker(path, epsilon) ==
    LET out == simplifyPath(path, Slice(0, Len(path), Len(path)), epsilon)
    IN  Elems(out.mem, out.s)

\* C9: the path of a successful response is the simplification with
\* tolerance 0.5 of the path found by the search; the response to
\* (0,0) -> (10,10) on the empty 20 x 20 grid has 2 points.
C9_Simplified ==
    (pc = "done" /\ resp.Success) =>
        /\ InHalves(resp.Path) = DouglasPeucker(InHalves(RawPath), SimplifyEpsilon)
        /\ (grid = NewGrid(20, 20) /\ start = Point(0, 0) /\ goal = Point(10, 10)) =>
               Len(resp.Path) = 2

\* C6: when start equals goal the call returns at once, without a search and
\* without the blocked check, the one-point path [start].
C6_SamePoint ==
    (pc \in {"search", "done"} /\ start = goal) =>
        /\ pc = "done"
        /\ resp.Success
        /\ resp.Path = <<start>>
        /\ nodes = <<>>

\* start = goal on an obstacle, answered with the one-point path
C6_Witness ==
    /\ pc = "done" /\ start = goal
    /\ Blocked(grid, start)
    /\ resp.Path = <<start>>

\* the squared distance from p to the segment a-b, as a fraction [n, d]
SegmentDist(p, a, b) ==
    LET len2 == (b.X - a.X) * (b.X - a.X) + (b.Y - a.Y) * (b.Y - a.Y)
        dot  == (p.X - a.X) * (b.X - a.X) + (p.Y - a.Y) * (b.Y - a.Y)
        toA  == (p.X - a.X) * (p.X - a.X) + (p.Y - a.Y) * (p.Y - a.Y)
        toB  == (p.X - b.X) * (p.X - b.X) + (p.Y - b.Y) * (p.Y - b.Y)
    IN  IF len2 = 0 \/ dot <= 0 THEN [n |-> toA, d |-> 1]
        ELSE IF dot >= len2 THEN [n |-> toB, d |-> 1]
        ELSE [n |-> toA * len2 - dot * dot, d |-> len2]

WithinEpsilon(p, line, epsilon) ==
    \E j \in 1..(Len(line) - 1) :
        SegmentDist(p, line[j], line[j + 1]).n
            <= epsilon * epsilon * SegmentDist(p, line[j], line[j + 1]).d

\* C10: every point of a polyline of at least 2 points given to simplifyPath
\* lies within epsilon of a segment of the returned polyline.
C10_ShapePreserved ==
    (spPc = "done" /\ Len(spInput) >= 2) =>
        \A i \in 1..Len(spInput) : WithinEpsilon(spInput[i], spResult, spEpsilon)

\* a polyline that is split at an interior point and loses another point
C10_Witness ==
    /\ spPc = "done"
    /\ Len(spInput) >= 4
    /\ Len(spResult) = 3
    /\ \E i \in 2..(Len(spInput) - 1) : \A j \in 1..Len(spResult) : spResult[j] # spInput[i]

\* SegmentDist fractions compared: a < b, and a <= epsilon
FracLess(a, b) == a.n * b.d < b.n * a.d
FracWithin(a, epsilon) == a.n <= epsilon * epsilon * a.d

RECURSIVE DouglasPeuckerOf(_, _)
\* The Douglas-Peucker result on the values of the points: fewer than 3
\* points stay; when every interior point is within epsilon of the segment
\* first-last, these two; else the results of the two parts around the first
\* farthest interior point, this point once.
DouglasPeuckerOf(P, epsilon) ==
    IF Len(P) < 3 THEN P
    ELSE LET n    == Len(P)
             d(i) == SegmentDist(P[i], P[1], P[n])
         IN  IF \A i \in 2..(n - 1) : FracWithin(d(i), epsilon)
             THEN <<P[1], P[n]>>
             ELSE LET k == CHOOSE i \in 2..(n - 1) :
                               /\ \A j \in 2..(n - 1) : ~FracLess(d(i), d(j))
                               /\ \A j \in 2..(i - 1) : FracLess(d(j), d(i))
                  IN  DouglasPeuckerOf(SubSeq(P, 1, k), epsilon)
                          \o Tail(DouglasPeuckerOf(SubSeq(P, k, n), epsilon))

RECURSIVE SubsequenceFrom(_, _, _, _)
\* r[i..] can be read off p[j..] from left to right
SubsequenceFrom(r, i, p, j) ==
    IF i > Len(r) THEN TRUE
    ELSE IF j > Len(p) THEN FALSE
    ELSE IF r[i] = p[j] THEN SubsequenceFrom(r, i + 1, p, j + 1)
    ELSE SubsequenceFrom(r, i, p, j + 1)

\* the example of the specification, in hundredths: (0,0), (1,0.01), (2,0),
\* (3,0), (4,0)
Example11 == <<Point(0, 0), Point(100, 1), Point(200, 0), Point(300, 0), Point(400, 0)>>

\* C11: simplifyPath returns the Douglas-Peucker result of its input, which
\* is a subsequence of the input with the same first and last point; the
\* example with epsilon 0.1 gives [(0,0), (4,0)].
C11_DouglasPeucker ==
    /\ spPc = "done" =>
           /\ spResult = DouglasPeuckerOf(spInput, spEpsilon)
           /\ SubsequenceFrom(spResult, 1, spInput, 1)
           /\ Len(spInput) < 3 => spResult = spInput
           /\ Len(spInput) >= 1 =>
                  /\ spResult[1] = spInput[1]
                  /\ spResult[Len(spResult)] = spInput[Len(spInput)]
    /\ DouglasPeucker(Example11, 10) = <<Point(0, 0), Point(400, 0)>>

\* a call that splits twice and joins the parts in the caller's array
C11_Witness ==
    /\ spPc = "done"
    /\ Len(spInput) = 4
    /\ Len(spResult) = 3
    /\ spPath # spInput

\* C12: simplifying the result of simplifyPath again with the same tolerance
\* returns that result, point for point.
C12_Idempotent ==
    spPc = "done" => DouglasPeucker(spResult, spEpsilon) = spResult

\* a call that dropped a point and kept an interior one
C12_Witness ==
    /\ spPc = "done"
    /\ Len(spResult) >= 3
    /\ Len(spResult) < Len(spInput)

\* the world point lies in the workspace of the path finder
InWorkspace(p, q) ==
    /\ q.X >= 0 /\ q.X < p.gridWidth * p.cellSize
    /\ q.Y >= 0 /\ q.Y < p.gridHeight * p.cellSize

\* C13: a successful call of PathFinder.FindPath with start and goal in the
\* workspace returns a path whose first point is the requested start and
\* whose last point is the requested goal.
C13_Endpoints ==
    (pfPc = "done" /\ pfResult.ok /\ InWorkspace(pf, pfStart) /\ InWorkspace(pf, pfGoal)) =>
        /\ pfResult.path[1] = pfStart
        /\ pfResult.path[Len(pfResult.path)] = pfGoal

\* the largest integer not above a / b, for b > 0
Floor(a, b) == a \div b

\* C14: the grid index of a world coordinate w is floor(w / cellSize); a call
\* with a negative start or goal coordinate is rejected by the bounds check,
\* before any node is queued.
C14_FloorIndex ==
    pfPc # "idle" =>
        /\ goalNode.x = Floor(pfGoal.X, pf.cellSize)
        /\ goalNode.y = Floor(pfGoal.Y, pf.cellSize)
        /\ (pfStart.X < 0 \/ pfStart.Y < 0 \/ pfGoal.X < 0 \/ pfGoal.Y < 0) =>
               /\ pfPc = "done"
               /\ ~pfResult.ok
               /\ pfNodes = <<>>

\* C15: every answer of HandlePathfinding is a response body in which success
\* is true exactly when a non-empty path is carried, and a failure has
\* success false, no path and a message.
C15_ResponseShape ==
    pc \in {"done", "rejected"} =>
        /\ resp.Status \in {200, 400}
        /\ resp.Success <=> resp.Path # <<>>
        /\ ~resp.Success => resp.Path = <<>> /\ resp.Message # ""

\* the answer to a body that does not parse
C15_Witness ==
    /\ pc = "rejected"
    /\ resp = BadRequest
    /\ body.bad # {}

\* C16: a request in which a coordinate or a dimension is absent or is not a
\* number is answered with success false, and neither a grid is built nor a
\* search is run for it.
C16_Rejected ==
    (pc # "idle" /\ (body.missing \cup body.bad) # {}) =>
        /\ pc = "rejected"
        /\ ~resp.Success
        /\ grid = NewGrid(0, 0)
        /\ nodes = <<>>

RECURSIVE RunAlone(_, _)
\* a call that runs to its end with nothing else running
RunAlone(g, call) ==
    IF call.pc = "done" THEN call.path
    ELSE RunAlone(g, Iteration(g, call.closedSet, call.gScores, call))

\* the path (the empty sequence for nil) of g.FindPath(s, t) called alone on
\* a grid g
FindPath(g, s, t) == RunAlone(g, BeginCall(g, s, t))

\* every call that has ended has the path of the same call made alone
SameAsAlone ==
    \A c \in Callers :
        calls[c].pc = "done" =>
            calls[c].path = FindPath(shared, calls[c].start, calls[c].goal)

\* a step taken while a call runs leaves the grid as it is, and a step of one
\* caller leaves the locals of the others as they are
GridUntouched ==
    /\ (\E c \in Callers : calls[c].pc # "idle") => shared' = shared
    /\ \A c \in Callers, d \in Callers :
           (c # d /\ calls'[c] # calls[c]) => calls'[d] = calls[d]

\* C17: Grid.FindPath changes neither the grid nor anything another call
\* reads: a call returns the path it returns when it runs alone, whatever
\* calls ran before it or run at the same time on the same grid.
C17_NoSharedState == []SameAsAlone /\ [][GridUntouched]_vars

\* a call that has ended with a path around an obstacle while another call
\* on the same grid is in its search over the same cells
C17_Witness ==
    /\ calls[1].pc = "done"
    /\ Len(calls[1].path) >= 3
    /\ shared.Obstacles # {}
    /\ calls[2].pc = "search"
    /\ calls[2].closedSet \cap calls[1].closedSet # {}

Cheapest(x1, y1, x2, y2) ==
    LET dx == Abs(x2 - x1)
        dy == Abs(y2 - y1)
        diagonal == IF dx < dy THEN dx ELSE dy
    IN  diagonal * DiagonalCost + (dx + dy - 2 * diagonal) * One

\* C19: for every node the search of PathFinder.FindPath has queued from a
\* cell c, h(c) is at most the charged cost of the step plus h of the node,
\* a diagonal step is charged sqrt(2), and without obstacles h of a queued
\* cell is at most the cheapest cost from it to the goal.
C19_Admissible ==
    pfPc # "idle" =>
        \A i \in 1..Len(pfNodes) :
            LET n == pfNodes[i]
            IN  /\ pf.obstacles = {} => n.h <= Cheapest(n.x, n.y, goalNode.x, goalNode.y)
                /\ n.parent # NilNode =>
                       LET c == pfNodes[n.parent]
                       IN  /\ c.h <= (n.g - c.g) + n.h
                           /\ (c.x # n.x /\ c.y # n.y) => n.g - c.g = Sqrt2

ToAgv == {"command", "mode_change", "emergency_stop"}
ToWeb == {"position", "status", "log", "target_found", "path_update",
          "chat_response", "agv_event", "llm_explanation", "system_info"}

C21_AutoGeneration ==
    /\ autoCount <= 1
    /\ lastGen.by = "auto" =>
           /\ lastGen.agvCount > 0
           /\ lastGen.clientCount > 0
           /\ lastGen.before = 0
           /\ lastGen.replaced = 0

\* the goroutine has replaced a map made by POST /api/map/generate
C21_Replaced == lastGen.by = "auto" /\ lastGen.replaced # 0 /\ lastGen.agvCount > 0

\* C22: every read of the goals and obstacles of the active map happens with
\* the mutex of the MapGenerator held: while a writer is inside AddGoal,
\* UpdateGoal or SetGoalStatus, no reader is walking the goals of that map.
C22_ReadsUnderLock ==
    ~ /\ rdPc = "serialise"
      /\ rdMap = activeMap.ID
      /\ wrPc \in {"AddGoal", "UpdateGoal", "SetGoalStatus"}

\* the G of the nodes created so far for the cell of key k
CellCosts(k) == {nodes[i].G : i \in {j \in 1..Len(nodes) : pointKey(nodes[j].Point) = k}}

\* the recorded cost of every cell with a node is the least G of its nodes,
\* and only such cells have a recorded cost
RecordedIsLeast ==
    pc = "search" =>
        /\ DOMAIN gScores = {pointKey(nodes[i].Point) : i \in 1..Len(nodes)}
        /\ \A k \in DOMAIN gScores :
               /\ gScores[k] \in CellCosts(k)
               /\ \A c \in CellCosts(k) : gScores[k] <= c

\* the nodes appended by an iteration of the loop passed every test of
\* astar.go:62-76 and 116-131, and their cost is the recorded one afterwards
AppendedPassed ==
    (pc = "search" /\ pc' = "search") =>
        /\ Len(openList') - (Len(openList) - 1) = Len(nodes') - Len(nodes)
        /\ \A i \in (Len(nodes) + 1)..Len(nodes') :
               LET n   == nodes'[i]
                   key == pointKey(n.Point)
               IN  /\ n.Point.X >= 0 /\ n.Point.X < grid.Width
                   /\ n.Point.Y >= 0 /\ n.Point.Y < grid.Height
                   /\ ~IsObstacle(grid, n.Point.X, n.Point.Y)
                   /\ key \notin closedSet'
                   /\ key \notin DOMAIN gScores \/ n.G < gScores[key]
                   /\ n.G = nodes[n.Parent].G + moveCost(nodes[n.Parent].Point, n.Point)
                   /\ gScores'[key] = n.G
                   /\ openList'[Len(openList) - 1 + (i - Len(nodes))] = i

\* C23: Grid.FindPath appends a neighbour to the open list only if it is in
\* bounds, not an obstacle, not closed, and without a recorded cost or with a
\* tentative cost strictly below it; the recorded cost becomes the tentative
\* cost, so the recorded cost of a cell is always the least g of its nodes.
C23_Expansion == []RecordedIsLeast /\ [][AppendedPassed]_vars

\* a cell has a second node, appended with a strictly lower cost
C23_Witness ==
    /\ pc = "search"
    /\ \E i, j \in 1..Len(nodes) :
           /\ i < j
           /\ nodes[i].Point = nodes[j].Point
           /\ nodes[j].G < nodes[i].G
           /\ gScores[pointKey(nodes[j].Point)] = nodes[j].G

\* the nodes pushed by a step of PathFinder.FindPath
PathFinderPushed == (Len(pfNodes) + 1)..Len(pfNodes')

\* each node pushed by an iteration of the loop is in bounds, unblocked and
\* not closed, and cheaper than every node created before for its cell, those
\* still in the open set included
PushedPassed ==
    (pfPc = "search" /\ pfPc' = "search") =>
        \A i \in PathFinderPushed :
            LET n == pfNodes'[i]
            IN  /\ isValid(pf, n.x, n.y)
                /\ ~isObstacle(pf, n.x, n.y)
                /\ nodeKey(n.x, n.y) \notin pfClosedSet'
                /\ \A j \in 1..Len(pfNodes) :
                       (pfNodes[j].x = n.x /\ pfNodes[j].y = n.y) => n.g < pfNodes[j].g
                /\ \A k \in 1..Len(openSet') :
                       LET o == pfNodes'[openSet'[k]]
                       IN  (openSet'[k] # i /\ o.x = n.x /\ o.y = n.y) => n.g < o.g

\* C24: PathFinder.FindPath pushes a neighbour only if it is in bounds,
\* unblocked, not closed, and without a recorded cost or with a tentative cost
\* strictly below it; a neighbour that is in the open set with an equal or
\* lower cost is not pushed again.
C24_Expansion == [][PushedPassed]_vars

\* the node an iteration of the loop of Grid.FindPath takes from the open list
Selected == nodes[openList[minFIndex(nodes, openList)]]

\* A step that puts a cell into the closed set for the first time expands a
\* node that came at the least cost of all free paths from the start, and no
\* step changes the recorded cost of a closed cell.
ClosedIsFinal ==
    (pc = "search" /\ pc' = "search" /\ InBounds(grid, start) /\ ~Blocked(grid, start)) =>
        /\ \A k \in closedSet : k \in DOMAIN gScores' /\ gScores'[k] = gScores[k]
        /\ closedSet' # closedSet =>
               LET least == MinCost(grid, start, Selected.Point)
               IN  /\ closedSet' = closedSet \cup {pointKey(Selected.Point)}
                   /\ least # NoCost
                   /\ Selected.G = least.a * One + least.b * Sqrt2
                   /\ gScores[pointKey(Selected.Point)] = Selected.G

\* C25: in Grid.FindPath with an in-bounds unblocked start, the node expanded
\* when a cell is first closed has the minimum cost of all 8-connected
\* obstacle-free paths from the start to that cell, and the recorded cost of
\* a closed cell never changes afterwards.
C25_ClosedFinal == [][ClosedIsFinal]_vars

\* a closed cell that had two nodes, the cheaper of which was expanded, and
\* the whole region explored with its recorded cost unchanged
C25_Witness ==
    /\ pc = "search" /\ InBounds(grid, start) /\ ~Blocked(grid, start)
    /\ openList = <<>>
    /\ \E i, j \in 1..Len(nodes) :
           /\ i < j
           /\ nodes[i].Point = nodes[j].Point
           /\ nodes[j].G < nodes[i].G
           /\ pointKey(nodes[j].Point) \in closedSet
           /\ gScores[pointKey(nodes[j].Point)] = nodes[j].G

\* every node taken from the open list of Grid.FindPath belongs to a cell
\* that is not in the closed set
SelectedUnclosed ==
    (pc = "search" /\ openList # <<>>) => pointKey(Selected.Point) \notin closedSet

\* a step that generates the neighbours of a node closes a cell that was not
\* closed
ExpandsOnce ==
    (pc = "search" /\ pc' = "search") => closedSet' # closedSet

\* C26: within one call of Grid.FindPath every node taken from the open list
\* belongs to a cell not yet in the closed set, so no cell is expanded more
\* than once, also when the goal is unreachable and the whole reachable region
\* is explored.
C26_SingleExpansion == []SelectedUnclosed /\ [][ExpandsOnce]_vars

DiagonalOffsets == {<<1, 1>>, <<1, -1>>, <<-1, 1>>, <<-1, -1>>}
OrthogonalOffsets == {<<0, 1>>, <<1, 0>>, <<0, -1>>, <<-1, 0>>}

\* the free cells of a PathFinder, and those connected to the cells of S
PathFinderFree(p) ==
    {c \in Cells(p.gridWidth, p.gridHeight) : ~isObstacle(p, c.X, c.Y)}

RECURSIVE PathFinderReach(_, _)
PathFinderReach(p, S) ==
    LET T == S \cup {q \in PathFinderFree(p) : \E c \in S : Adjacent(c, q)}
    IN  IF T = S THEN S ELSE PathFinderReach(p, T)

\* An iteration of either search creates a node for every diagonal neighbour
\* that is in bounds and unblocked (and not closed, nor recorded at a cost
\* that is not higher), with the expanded node as its parent, whatever the two
\* flanking cells are.
DiagonalsGenerated ==
    /\ (pc = "search" /\ pc' = "search") =>
           LET cur == openList[minFIndex(nodes, openList)]
           IN  \A d \in DiagonalOffsets :
                   LET t == Point(nodes[cur].Point.X + d[1], nodes[cur].Point.Y + d[2])
                   IN  (/\ InBounds(grid, t) /\ ~Blocked(grid, t)
                        /\ pointKey(t) \notin closedSet'
                        /\ pointKey(t) \notin DOMAIN gScores) =>
                           \E i \in (Len(nodes) + 1)..Len(nodes') :
                               nodes'[i].Point = t /\ nodes'[i].Parent = cur
    /\ (pfPc = "search" /\ pfPc' = "search") =>
           LET cur == heapPop(pfNodes, openSet).node
           IN  \A d \in DiagonalOffsets :
                   LET x == pfNodes[cur].x + d[1]
                       y == pfNodes[cur].y + d[2]
                   IN  (/\ isValid(pf, x, y) /\ ~isObstacle(pf, x, y)
                        /\ nodeKey(x, y) \notin pfClosedSet') =>
                           \E i \in PathFinderPushed :
                               /\ pfNodes'[i].x = x /\ pfNodes'[i].y = y
                               /\ pfNodes'[i].parent = cur

\* no orthogonal neighbour of the cell p is a free cell of the grid
GridEnclosed(g, p) ==
    \A d \in OrthogonalOffsets : ~IsValid(g, p.X + d[1], p.Y + d[2])

PathFinderEnclosed(p, x, y) ==
    \A d \in OrthogonalOffsets :
        ~isValid(p, x + d[1], y + d[2]) \/ isObstacle(p, x + d[1], y + d[2])

\* a free goal with no free orthogonal neighbour and a free diagonal neighbour
\* connected to the start is answered with a path
EnclosedAnswered ==
    /\ (/\ pc = "done" /\ ProperEndpoints
        /\ GridEnclosed(grid, goal)
        /\ \E d \in DiagonalOffsets :
               LET t == Point(goal.X + d[1], goal.Y + d[2])
               IN  t \in FreeCells(grid) /\ Reachable(grid, start, t))
           => /\ resp.Success
              /\ resp.Path[Len(resp.Path)] = goal
    /\ LET sn == worldToGrid(pf, pfStart.X, pfStart.Y)
       IN  (/\ pfPc = "done"
            /\ isValid(pf, sn.x, sn.y) /\ ~isObstacle(pf, sn.x, sn.y)
            /\ isValid(pf, goalNode.x, goalNode.y)
            /\ ~isObstacle(pf, goalNode.x, goalNode.y)
            /\ PathFinderEnclosed(pf, goalNode.x, goalNode.y)
            /\ \E d \in DiagonalOffsets :
                   LET t == Point(goalNode.x + d[1], goalNode.y + d[2])
                   IN  /\ t \in PathFinderFree(pf)
                       /\ t \in PathFinderReach(pf, {Point(sn.x, sn.y)}))
               => pfResult.ok

\* C27: both searches generate a diagonal step whenever the target cell is in
\* bounds and unblocked, whatever the two flanking orthogonal cells are; a
\* goal whose four orthogonal neighbours are blocked and which has a free
\* diagonal neighbour reachable from the start is answered with success.
C27_CornerCutting == []EnclosedAnswered /\ [][DiagonalsGenerated]_vars

\* Grid.FindPath has answered with the path (0,0), (1,1) to a goal between
\* four obstacles
C27_Witness ==
    /\ pc = "done" /\ resp.Success
    /\ \A d \in OrthogonalOffsets : Blocked(grid, Point(goal.X + d[1], goal.Y + d[2]))
    /\ resp.Path = <<Point(0, 0), Point(1, 1)>>

\* PathFinder.FindPath has answered with a path to a goal cell between four
\* blocked cells
C27_WitnessPathFinder ==
    /\ pfPc = "done" /\ pfResult.ok
    /\ goalNode.x = 1 /\ goalNode.y = 1
    /\ \A d \in OrthogonalOffsets :
           /\ isValid(pf, goalNode.x + d[1], goalNode.y + d[2])
           /\ isObstacle(pf, goalNode.x + d[1], goalNode.y + d[2])
    /\ Len(pfResult.path) = 2

\* C28: a call of PathFinder.FindPath whose start and goal fall in the same
\* cell of the grid returns success with a path of a single point, also when
\* that cell lies inside an obstacle.
C28_SameCell ==
    LET sn == worldToGrid(pf, pfStart.X, pfStart.Y)
    IN  (/\ pfPc = "done"
         /\ sn.x = goalNode.x /\ sn.y = goalNode.y
         /\ isValid(pf, sn.x, sn.y))
            => pfResult.ok /\ Len(pfResult.path) = 1

\* such a call on a free cell, answered with the origin of the cell
C28_FreeCell ==
    LET sn == worldToGrid(pf, pfStart.X, pfStart.Y)
    IN  /\ pfPc = "done"
        /\ sn.x = goalNode.x /\ sn.y = goalNode.y
        /\ pfStart # pfGoal
        /\ pfResult.ok
        /\ pfResult.path = <<Point(sn.x * pf.cellSize, sn.y * pf.cellSize)>>

\* C29: after a call of simplifyPath, all recursive calls and the joining of
\* their results included, the sequence of the caller holds the same points
\* in the same order as before the call.
C29_ArgumentUnchanged == spPc = "done" => spPath = spInput

\* the steps a call on len points still needs at most, by stage
EnterRank(len) == IF len < 3 THEN 2 ELSE 10 * len - 15
ActivationRank(f) ==
    IF f.stage = "enter" THEN EnterRank(f.path.len)
    ELSE IF f.stage = "left" THEN EnterRank(f.path.len - f.index + 1) + 1
    ELSE 1

RECURSIVE RankFrom(_, _)
RankFrom(stack, i) ==
    IF i > Len(stack) THEN 0 ELSE ActivationRank(stack[i]) + RankFrom(stack, i + 1)

\* a bound on the steps left of the call on the stack
Rank == RankFrom(rcStack, 1)

\* every step of a call makes the bound smaller, and a step that makes a
\* recursive call passes a sub-sequence strictly shorter than that of the
\* activation making the call
RecursionDescends ==
    rcPc = "run" =>
        /\ Rank' < Rank
        /\ Len(rcStack') > Len(rcStack) =>
               /\ Len(rcStack') = Len(rcStack) + 1
               /\ rcStack'[Len(rcStack')].path.len
                      < rcStack'[Len(rcStack') - 1].path.len
               /\ rcStack'[Len(rcStack')].path.len >= 2

\* the recursive calls on the stack are no more than the points of the input
DepthBounded ==
    rcPc = "run" =>
        /\ Len(rcStack) >= 1
        /\ Len(rcStack) - 1 <= Len(rcInput)
        /\ Rank > 0

\* C30: for every finite polyline and every epsilon > 0 the recursion of
\* simplifyPath terminates: every recursive call receives a strictly shorter
\* sub-sequence than its caller, and the recursion depth never exceeds the
\* number of input points.
C30_Terminates == []DepthBounded /\ [][RecursionDescends]_vars

\* a recursive call made by a recursive call has run to its return, on a
\* sub-sequence of 2 points of a caller with 3 of the 4 points of the input
C30_Witness ==
    /\ rcPc = "run"
    /\ Len(rcInput) = 4
    /\ Len(rcStack) = 3
    /\ rcStack[2].path.len = 3
    /\ rcStack[3].path.len = 2
    /\ rcStack[3].stage = "return"

\* the call followed step by step returns what simplifyPath returns, and
\* leaves the caller's array as simplifyPath leaves it
RecursionAgrees ==
    rcPc = "done" =>
        LET out == simplifyPath(rcInput, Slice(0, Len(rcInput), Len(rcInput)), rcEpsilon)
        IN  /\ rcMem = out.mem
            /\ rcOut = out.s

\* C31: the goroutine of ClientManager.Start never blocks for good: after
\* every broadcast, also one in which a write to a client fails, it is back at
\* its select, where the later register, unregister and broadcast requests
\* are served and the client of the failed write is removed.
C31_NeverBlocks == mgrPc = "select"

\* once the goroutine waits in the send of websocket.go:111 it stays there,
\* with the client of the failed write still in the table
C31_BlockedForGood ==
    [][mgrPc = "blocked" =>
           /\ mgrPc' = "blocked"
           /\ clients' = clients
           /\ \A f \in writes.failed : f.Conn \in DOMAIN clients']_vars

\* a caller inside the send of Stop has a goroutine of runSimulation that
\* can still come to receive it
StopCanReturn == stopPc = "send" => Running # {}

\* after Stop has returned no goroutine of runSimulation is left and update()
\* is not called again; while the simulator runs there is one such goroutine
StoppedIsStopped ==
    /\ stopped => Running = {} /\ ticks = 0
    /\ Cardinality(Running) <= 1
    /\ (IsRunning /\ stopPc = "idle") => Cardinality(Running) = 1

\* C32: Stop on a running simulator always returns, whether the goroutine of
\* the simulation is idle in its select or inside update(); after it returns
\* the loop has exited and no update follows, and a following Start launches
\* exactly one loop, which runs until the next Stop.
C32_StopReturns == StopCanReturn /\ StoppedIsStopped

\* C33: after Start followed by Stop both goroutines of the service,
\* processEvents and periodicCommentary, have returned, so that no queued
\* event is handled and no periodic_update is queued any more.
C33_StopsBoth == csStopped => procPc = "exited" /\ periodicPc = "exited"

\* a goroutine of the service returns only in a step in which a call of Stop
\* returns: every call of Stop ends one goroutine, and nothing else ends any
C33_OnePerStop ==
    [][/\ (procPc = "select" /\ procPc' # "select") =>
              (csStopPc = "send" /\ csStopPc' = "idle" /\ periodicPc' = periodicPc)
       /\ (periodicPc = "select" /\ periodicPc' # "select") =>
              (csStopPc = "send" /\ csStopPc' = "idle" /\ procPc' = procPc)]_vars

\* after Stop has returned, processEvents takes an event from the queue
C33_StillHandles ==
    /\ csStopped /\ csStopPc = "idle"
    /\ procPc = "select" /\ periodicPc = "exited"
    /\ handled.Type = EventTargetFound
    /\ eventQueue = <<>>

\* an event is taken from the queue only when no waiting event has a higher
\* priority
HighestFirst ==
    (eventQueue # <<>> /\ eventQueue' = Tail(eventQueue)) =>
        \A i \in 1..Len(eventQueue) : eventQueue[i].Priority <= handled'.Priority

\* C35: among the events waiting in the queue of the CommentaryService, an
\* event with a higher Priority is handled before every waiting event with a
\* lower Priority.
C35_PriorityOrder == [][HighestFirst]_vars

\* the entries of a batch, and the entries handed to the database so far
EntriesOf(batch) == {batch[k] : k \in DOMAIN batch}
Handed == UNION {EntriesOf(batches[i]) : i \in DOMAIN batches}

\* once StopLogging has returned, every entry added before the call has
\* left the buffer and has been handed to the database
FinalFlushDone ==
    stopLoggingPc \in {"returned", "exited"} =>
        /\ logs = <<>>
        /\ before \subseteq Handed

\* no entry is in two batches, or twice in one
NoEntryTwice ==
    /\ \A i, j \in DOMAIN batches :
           i # j => EntriesOf(batches[i]) \cap EntriesOf(batches[j]) = {}
    /\ \A i \in DOMAIN batches :
           Cardinality(EntriesOf(batches[i])) = Len(batches[i])

\* C34: when StopLogging returns, every entry added with AddLog before the
\* call has been taken out of the buffer and handed to the database writer,
\* and no entry is ever handed over in two batches.
C34_FlushOnShutdown == FinalFlushDone /\ NoEntryTwice

\* the second half of C34 alone: every batch handed over is disjoint from
\* every other one
C34_OnceOnly == NoEntryTwice

\* the process has ended with an entry added before StopLogging still in the
\* buffer and never handed over
C34_Lost ==
    /\ stopLoggingPc = "exited"
    /\ \E e \in before : e \notin Handed /\ e \in EntriesOf(logs)

\* the keys of agvs are the keys of lastPing
SameKeys == DOMAIN agvInfos = DOMAIN lastPing

\* a step in which the manager was called or its maps changed
ManagerActed ==
    \/ called' # called
    \/ agvInfos' # agvInfos
    \/ lastPing' # lastPing

\* RegisterAGV with an empty ID, and UpdateStatus or RemoveAGV with an
\* unknown ID, return an error and leave both maps as they were
ErrorsChangeNothing ==
    (/\ ManagerActed
     /\ \/ called'.op = "RegisterAGV" /\ called'.agvID = ""
        \/ /\ called'.op \in {"UpdateStatus", "RemoveAGV"}
           /\ called'.agvID \notin DOMAIN agvInfos)
    => /\ called'.err
       /\ UNCHANGED <<agvInfos, lastPing>>

\* RegisterAGV of a registered ID returns no error and keeps RegisteredAt,
\* position, mode, state and battery of that AGV, and every other AGV
ReRegisterKeeps ==
    (/\ ManagerActed
     /\ called'.op = "RegisterAGV"
     /\ called'.agvID \in DOMAIN agvInfos)
    => /\ ~called'.err
       /\ DOMAIN agvInfos' = DOMAIN agvInfos
       /\ \A agvID \in DOMAIN agvInfos :
              /\ agvInfos'[agvID].RegisteredAt = agvInfos[agvID].RegisteredAt
              /\ agvInfos'[agvID].Position = agvInfos[agvID].Position
              /\ agvInfos'[agvID].Mode = agvInfos[agvID].Mode
              /\ agvInfos'[agvID].State = agvInfos[agvID].State
              /\ agvInfos'[agvID].Battery = agvInfos[agvID].Battery

\* C36: after any sequence of RegisterAGV, UpdateStatus, RemoveAGV and
\* CleanupOfflineAGVs the key set of agvs equals the key set of lastPing;
\* RegisterAGV with an empty ID, and UpdateStatus or RemoveAGV with an
\* unknown ID, return an error and leave both maps unchanged; RegisterAGV of
\* a registered ID keeps its RegisteredAt, position, mode, state and battery.
C36_RegistryInvariant ==
    []SameKeys /\ [][ErrorsChangeNothing /\ ReRegisterKeeps]_vars

\* an AGV that was registered, then updated by a status message, then
\* registered again later: it still has its first RegisteredAt and the mode
\* and position of the status message
C36_ReRegistered ==
    /\ called = [op |-> "RegisterAGV", agvID |-> "agv1", err |-> FALSE]
    /\ "agv1" \in DOMAIN agvInfos
    /\ agvInfos["agv1"].RegisteredAt < agvInfos["agv1"].Position.Timestamp
    /\ agvInfos["agv1"].Position.Timestamp < agvInfos["agv1"].LastUpdate
    /\ agvInfos["agv1"].Mode = "manual"
    /\ agvInfos["agv1"].Position.X = 1
    /\ DOMAIN lastPing = {"agv1"}

\* an UpdateStatus and a RemoveAGV of an unknown ID have returned an error
C36_UnknownUpdate ==
    called = [op |-> "UpdateStatus", agvID |-> "agv2", err |-> TRUE]
C36_UnknownRemove ==
    called = [op |-> "RemoveAGV", agvID |-> "agv2", err |-> TRUE]

\* a connection ends while another open connection has registered the same
\* AGV ID: the ID stays registered
OtherStillConnected(c, d) ==
    /\ c # d
    /\ agvConns[c].open /\ ~agvConns'[c].open
    /\ agvConns[d].open /\ agvConns'[d].open
    /\ agvConns[c].AGVID # ""
    /\ agvConns[d].AGVID = agvConns[c].AGVID
    /\ agvConns[c].AGVID \in DOMAIN agvInfos

\* C37: unregistering one AGV connection never removes the AGVManager entry
\* of an AGV that is still connected: when two connections have registered
\* the same AGV ID and one of them disconnects, the ID stays registered as
\* long as the other connection is open.
C37_KeepsConnected ==
    [][\A c, d \in AGVConns :
           OtherStillConnected(c, d) => agvConns[d].AGVID \in DOMAIN agvInfos']_vars

\* a connection is open with an AGV ID that the manager no longer knows,
\* and the status message it sent was refused
C37_Orphaned ==
    /\ agvConns[2].open
    /\ agvConns[2].AGVID = "agv1"
    /\ ~agvConns[1].open
    /\ "agv1" \notin DOMAIN agvInfos
    /\ now = 0
    /\ called = [op |-> "UpdateStatus", agvID |-> "agv1", err |-> TRUE]

\* the position lies within the bounds of the map g
WithinBounds(g, pos) ==
    /\ 0 <= pos.X /\ pos.X <= g.Width
    /\ 0 <= pos.Y /\ pos.Y <= g.Height

\* the position lies outside the radius of every obstacle of the map g
\* (positions in metres, radii in tenths of a metre)
ClearOfObstacles(g, pos) ==
    \A obstacle \in g.Obstacles :
        LET dx == pos.X - obstacle.Position.X
            dy == pos.Y - obstacle.Position.Y
        IN  100 * (dx * dx + dy * dy) >= obstacle.Radius * obstacle.Radius

\* every goal stored in the active map is valid for that map
GoalsInside ==
    \A i \in DOMAIN mapGrid.Goals :
        /\ WithinBounds(mapGrid, mapGrid.Goals[i].Position)
        /\ ClearOfObstacles(mapGrid, mapGrid.Goals[i].Position)

\* a request answered with "invalid position" adds no goal and broadcasts
\* nothing
RejectedAddsNothing ==
    (goalPc = "idle" /\ goalPc' = "idle" /\ goalReq' # goalReq)
    => /\ goalStatus' = 400
       /\ UNCHANGED <<mapGrid, announced>>

\* C38: under any interleaving of POST /api/map/goal with map generation,
\* every goal stored in the active map lies within that map's bounds and
\* outside the radius of every obstacle of that same map; a request with an
\* invalid position adds no goal and broadcasts nothing.
C38_GoalsValid == []GoalsInside /\ [][RejectedAddsNothing]_vars

\* the second half of C38 alone
C38_Rejected == [][RejectedAddsNothing]_vars

\* a goal that was checked against one map and stored in the next one lies
\* outside the bounds of the map that holds it, and it has been announced
C38_OutOfBounds ==
    /\ mapGrid.Goals # <<>>
    /\ goalFor # mapGrid.ID
    /\ ~WithinBounds(mapGrid, mapGrid.Goals[1].Position)
    /\ [Type |-> "agv_command", Position |-> mapGrid.Goals[1].Position]
           \in announced

\* a goal that was checked against one map and stored in the next one lies
\* on the centre of an obstacle of the map that holds it
C38_InObstacle ==
    /\ mapGrid.Goals # <<>>
    /\ goalFor # mapGrid.ID
    /\ WithinBounds(mapGrid, mapGrid.Goals[1].Position)
    /\ ~ClearOfObstacles(mapGrid, mapGrid.Goals[1].Position)

====
